---- MODULE Spec2Model ----
(***************************************************************************)
(* A model of the link-aggregation and scoring-method framework of         *)
(* nplinker (prototype/nplinker/scoring/methods.py): ObjectLink,           *)
(* LinkCollection, and the get_links / setup entry points of the scoring   *)
(* methods.                                                                *)
(*                                                                         *)
(* Python objects that are compared by identity are modelled by reference: *)
(* an ObjectLink is an entry of `heap`, and a LinkCollection's mappings    *)
(* hold references (keys of `heap`).  Python dicts are functions whose     *)
(* DOMAIN is the key set.                                                  *)
(***************************************************************************)
EXTENDS Integers, FiniteSets, Sequences, TLC

VARIABLES
    _and_mode,    \* LinkCollection._and_mode
    _methods,     \* LinkCollection._methods
    _link_data,   \* LinkCollection._link_data: source -> (target -> ObjectLink ref)
    heap,         \* the ObjectLink instances constructed so far: ref -> fields
    reported,     \* history: method -> the result mapping it passed to a successful add
    lastOp,       \* history: the operation that ran last, its arguments and outcome
    npl_counts,   \* the sizes of npl.bgcs, npl.gcfs, npl.spectra, npl.molfams, npl.strains
    cache_file,   \* metcalf/metcalf_scores.pckl under npl.root_dir
    DATALINKS,    \* MetcalfScoring.DATALINKS (class attribute)
    LINKFINDER,   \* MetcalfScoring.LINKFINDER (class attribute)
    lastSetup,    \* history: what the last MetcalfScoring.setup found and did
    cutoff,             \* MetcalfScoring instance: self.cutoff
    standardised,       \* MetcalfScoring instance: self.standardised
    bgc_to_gcf,         \* RosettaScoring instance: self.bgc_to_gcf
    spec_score_cutoff,  \* RosettaScoring instance: self.spec_score_cutoff
    bgc_score_cutoff,   \* RosettaScoring instance: self.bgc_score_cutoff
    npl_gcfs,           \* npl.gcfs, the public list of the analysis context
    npl_spectra,        \* npl.spectra
    npl_molfams,        \* npl.molfams
    lists,        \* the list objects held as shared_strains: ref -> contents
    lastCall,     \* history: the last call on an ObjectLink or read of the collection
    disk,         \* the files a Downloader keeps under self.local_cache
    frame,        \* the locals of the Downloader method that is running
    lastRun       \* history: what the Downloader's runs did

collVars == <<_and_mode, _methods, _link_data, heap, reported>>
setupVars == <<npl_counts, cache_file, DATALINKS, LINKFINDER, lastSetup>>
configVars == <<cutoff, standardised, bgc_to_gcf, spec_score_cutoff, bgc_score_cutoff,
                npl_gcfs, npl_spectra, npl_molfams>>
objVars == <<lists, lastCall>>
dlVars == <<disk, frame, lastRun>>

vars == <<_and_mode, _methods, _link_data, heap, reported, lastOp,
          npl_counts, cache_file, DATALINKS, LINKFINDER, lastSetup,
          cutoff, standardised, bgc_to_gcf, spec_score_cutoff, bgc_score_cutoff,
          npl_gcfs, npl_spectra, npl_molfams,
          lists, lastCall, disk, frame, lastRun>>

---------------------------------------------------------------------------
(* Bounds of the model *)

\* number of generic ScoringMethod instances that may contribute to the collection
NumMethods == 2

\* longest `sources` list handed to filter_links / filter_targets
MaxSourcesArg == 2

\* how many objects the universe may gain while the program is in use
MaxGrowth == 2

\* longest `objects` list handed to get_links
MaxObjects == 2

\* how many ObjectLinks a caller constructs by hand
MaxLinks == 2

\* longest shared_strains list
MaxStrains == 2

\* longest genome_records list of a project
MaxRecords == 2

---------------------------------------------------------------------------
(* The object universe held by the analysis context *)

None == "None"

Obj(k, i) == [kind |-> k, id |-> i]

GCFs == {Obj("GCF", 0), Obj("GCF", 1)}
Spectra == {Obj("Spectrum", 0), Obj("Spectrum", 1)}
BGCs == {Obj("BGC", 0), Obj("BGC", 1), Obj("BGC", 2)}
MolFams == {Obj("MolecularFamily", 0)}
AllObjects == BGCs \cup GCFs \cup Spectra \cup MolFams

\* list[i] of a Python list (indices start at 0)
At(list, i) == list[i + 1]

\* the private lists npl._gcfs, npl._spectra, npl._molfams, which hold their
\* objects in id order
npl__gcfs == <<Obj("GCF", 0), Obj("GCF", 1)>>
npl__spectra == <<Obj("Spectrum", 0), Obj("Spectrum", 1)>>
npl__molfams == <<Obj("MolecularFamily", 0)>>

\* a context whose public lists npl.gcfs, npl.spectra, npl.molfams hold the
\* objects as the private lists do
PublicAsPrivate ==
    /\ npl_gcfs = npl__gcfs
    /\ npl_spectra = npl__spectra
    /\ npl_molfams = npl__molfams

\* bgc.parent: the GCF that owns a BGC
Parent(bgc) == IF bgc.id = 2 THEN Obj("GCF", 1) ELSE Obj("GCF", 0)

\* gcf.bgcs: the member BGCs of a GCF
MemberBgcs(gcf) == {b \in BGCs : Parent(b) = gcf}

\* obj.strains
StrainsOf(obj) ==
    CASE obj.kind = "GCF" -> (IF obj.id = 0 THEN {"strainA", "strainB"} ELSE {"strainA"})
      [] obj.kind = "Spectrum" -> (IF obj.id = 0 THEN {"strainA"} ELSE {"strainA", "strainB"})
      [] obj.kind = "MolecularFamily" -> {"strainA", "strainB"}
      [] OTHER -> (IF obj.id = 2 THEN {"strainA"} ELSE {"strainA", "strainB"})

\* type(x), and isinstance(x, cls): the four classes are unrelated
TypeOf(x) == x.kind
IsInstance(x, cls) == x.kind = cls

\* the instances of a ScoringMethod subclass whose get_links hands an arbitrary
\* result mapping to the collection
\* a scoring method instance: its class and which instance of it
Method(cls, n) == [cls |-> cls, n |-> n]
NoMethod == Method("None", 0)

GenericMethods == {Method("ScoringMethod", n) : n \in 1..NumMethods}

---------------------------------------------------------------------------
(* Python dict helpers *)

EmptyDict == << >>

\* dict.update(other): other's value wins on a key collision
DictUpdate(d, other) ==
    [k \in (DOMAIN d) \cup (DOMAIN other) |->
        IF k \in DOMAIN other THEN other[k] ELSE d[k]]

\* {k: v for k, v in d.items() if k in keep}
DictRestrict(d, keep) == [k \in (DOMAIN d) \cap keep |-> d[k]]

\* the (source, target) pairs of a source -> target -> x mapping
Pairs(m) == UNION {{<<s, t>> : t \in DOMAIN m[s]} : s \in DOMAIN m}

---------------------------------------------------------------------------
(* ObjectLink *)

\* the one list object that is the default value of the shared_strains
\* parameter: Python evaluates `shared_strains=[]` once, when __init__ is defined
DefaultList == <<"list">>

\* ObjectLink.__init__(source, target, method, data, shared_strains): the link
\* holds the list object it was given
ObjectLinkWith(source, target, method, data, shared_strains) ==
    [source |-> source,
     target |-> target,
     shared_strains |-> shared_strains,
     _method_data |-> (method :> data)]

\* ObjectLink.__init__(source, target, method, data) with shared_strains omitted
ObjectLinkInit(source, target, method, data) ==
    ObjectLinkWith(source, target, method, data, DefaultList)

\* link.shared_strains, as the contents of the list object the link holds
SharedStrains(h, ref) == lists[h[ref].shared_strains]

\* a call on an ObjectLink, or a read of the collection: the object it was made
\* on, its argument, the value it returned and the error it raised
Call(op, self, arg, value, error) ==
    [op |-> op, self |-> self, arg |-> arg, value |-> value, error |-> error]
NoRef == <<"none">>
NoValue == <<"none">>
\* no such call yet
NoCall == Call("none", NoRef, NoRef, NoValue, "none")

\* the list objects and the call history when the program starts
ObjectsInit ==
    /\ lists = (DefaultList :> << >>)
    /\ lastCall = NoCall

\* mutant of _merge: self's payload mapping is replaced by other's
_merge_replace(h, self, other_link) ==
    [h EXCEPT ![self]._method_data = h[other_link]._method_data]

\* mutant of _merge: a payload self already has is kept
_merge_keep_own(h, self, other_link) ==
    [h EXCEPT ![self]._method_data = DictUpdate(h[other_link]._method_data, @)]

\* mutant of _merge: a payload both links have is kept next to the new one
_merge_accumulate(h, self, other_link) ==
    [h EXCEPT ![self]._method_data =
        [m \in (DOMAIN @) \cup DOMAIN h[other_link]._method_data |->
            IF m \in DOMAIN @ /\ m \in DOMAIN h[other_link]._method_data
            THEN <<@[m], h[other_link]._method_data[m]>>
            ELSE IF m \in DOMAIN @ THEN @[m] ELSE h[other_link]._method_data[m]]]

\* ObjectLink._merge(other_link), as the heap after self was updated in place
_merge(h, self, other_link) ==
    [h EXCEPT ![self]._method_data = DictUpdate(@, h[other_link]._method_data)]

\* ObjectLink.methods
LinkMethods(h, ref) == DOMAIN h[ref]._method_data

\* ObjectLink.method_count
LinkMethodCount(h, ref) == Cardinality(DOMAIN h[ref]._method_data)

---------------------------------------------------------------------------
(* LinkCollection *)

\* LinkCollection.__init__(and_mode)
LinkCollectionInit(and_mode) ==
    /\ _and_mode = and_mode
    /\ _methods = {}
    /\ _link_data = EmptyDict
    /\ heap = EmptyDict

\* the collection's mutable state as one value: the link map and the ObjectLinks
Coll(ld, h) == [link_data |-> ld, heap |-> h]

\* for target, object_link in links.items(): stored[target]._merge(object_link),
\* over the targets in `todo`
RECURSIVE MergeEach(_, _, _, _)
MergeEach(h, stored, links, todo) ==
    IF todo = {} THEN h
    ELSE LET target == CHOOSE t \in todo : TRUE
         IN  MergeEach(_merge(h, stored[target], links[target]),
                       stored, links, todo \ {target})

\* the body of the loop of _merge_and_mode for the sources common to both sides:
\* the existing links are cut down to the targets also reported now and the
\* reported ObjectLink is merged into each survivor
RECURSIVE AndMergeSources(_, _, _, _)
AndMergeSources(ld, h, object_links, todo) ==
    IF todo = {} THEN Coll(ld, h)
    ELSE LET source == CHOOSE s \in todo : TRUE
             existing_links == ld[source]
             links_to_merge == object_links[source]
             intersect2 == (DOMAIN existing_links) \cap (DOMAIN links_to_merge)
             kept == DictRestrict(existing_links, intersect2)
             h2 == MergeEach(h, kept, links_to_merge,
                             {t \in DOMAIN links_to_merge : t \in DOMAIN kept})
         IN  AndMergeSources([ld EXCEPT ![source] = kept], h2, object_links,
                             todo \ {source})

\* mutant of _merge_and_mode: the targets of a common source are not cut down
\* to the targets reported now
RECURSIVE AndMergeSourcesKeepTargets(_, _, _, _)
AndMergeSourcesKeepTargets(ld, h, object_links, todo) ==
    IF todo = {} THEN Coll(ld, h)
    ELSE LET source == CHOOSE s \in todo : TRUE
             h2 == MergeEach(h, ld[source], object_links[source],
                             (DOMAIN object_links[source]) \cap (DOMAIN ld[source]))
         IN  AndMergeSourcesKeepTargets(ld, h2, object_links, todo \ {source})

_merge_and_mode_keep_targets(ld, h, object_links) ==
    LET intersect1 == (DOMAIN ld) \cap (DOMAIN object_links)
        merged == AndMergeSourcesKeepTargets(ld, h, object_links, intersect1)
        to_remove == {s \in DOMAIN ld :
                         s \notin intersect1 \/ DOMAIN merged.link_data[s] = {}}
    IN  Coll(DictRestrict(merged.link_data, (DOMAIN ld) \ to_remove), merged.heap)

\* mutant of _merge_and_mode: a source the new results lack is not removed
_merge_and_mode_keep_sources(ld, h, object_links) ==
    LET intersect1 == (DOMAIN ld) \cap (DOMAIN object_links)
        merged == AndMergeSources(ld, h, object_links, intersect1)
        to_remove == {s \in DOMAIN ld : DOMAIN merged.link_data[s] = {}}
    IN  Coll(DictRestrict(merged.link_data, (DOMAIN ld) \ to_remove), merged.heap)

\* LinkCollection._merge_and_mode(object_links)
_merge_and_mode(ld, h, object_links) ==
    LET intersect1 == (DOMAIN ld) \cap (DOMAIN object_links)
        merged == AndMergeSources(ld, h, object_links, intersect1)
        to_remove == {s \in DOMAIN ld :
                         s \notin intersect1 \/ DOMAIN merged.link_data[s] = {}}
    IN  Coll(DictRestrict(merged.link_data, (DOMAIN ld) \ to_remove), merged.heap)

\* the body of the loop of _merge_or_mode, over the sources of object_links
RECURSIVE OrMergeSources(_, _, _, _)
OrMergeSources(ld, h, object_links, todo) ==
    IF todo = {} THEN Coll(ld, h)
    ELSE LET source == CHOOSE s \in todo : TRUE
             links == object_links[source]
             stored == IF source \notin DOMAIN ld
                       THEN links
                       ELSE DictUpdate(ld[source],
                                DictRestrict(links, (DOMAIN links) \ (DOMAIN ld[source])))
             ld2 == [s \in (DOMAIN ld) \cup {source} |->
                        IF s = source THEN stored ELSE ld[s]]
             h2 == MergeEach(h, stored, links, DOMAIN links)
         IN  OrMergeSources(ld2, h2, object_links, todo \ {source})

\* mutant of _merge_or_mode: the reported ObjectLinks replace the stored ones
RECURSIVE OrMergeSourcesReplace(_, _, _, _)
OrMergeSourcesReplace(ld, h, object_links, todo) ==
    IF todo = {} THEN Coll(ld, h)
    ELSE LET source == CHOOSE s \in todo : TRUE
             links == object_links[source]
             stored == IF source \notin DOMAIN ld THEN links
                       ELSE DictUpdate(ld[source], links)
             ld2 == [s \in (DOMAIN ld) \cup {source} |->
                        IF s = source THEN stored ELSE ld[s]]
         IN  OrMergeSourcesReplace(ld2, MergeEach(h, stored, links, DOMAIN links),
                                   object_links, todo \ {source})

_merge_or_mode_replace(ld, h, object_links) ==
    OrMergeSourcesReplace(ld, h, object_links, DOMAIN object_links)

\* mutant of _merge_or_mode: a source already present gains no new target
RECURSIVE OrMergeSourcesNoNewTargets(_, _, _, _)
OrMergeSourcesNoNewTargets(ld, h, object_links, todo) ==
    IF todo = {} THEN Coll(ld, h)
    ELSE LET source == CHOOSE s \in todo : TRUE
             links == object_links[source]
             stored == IF source \notin DOMAIN ld THEN links ELSE ld[source]
             ld2 == [s \in (DOMAIN ld) \cup {source} |->
                        IF s = source THEN stored ELSE ld[s]]
         IN  OrMergeSourcesNoNewTargets(ld2,
                 MergeEach(h, stored, links, (DOMAIN links) \cap (DOMAIN stored)),
                 object_links, todo \ {source})

_merge_or_mode_no_new_targets(ld, h, object_links) ==
    OrMergeSourcesNoNewTargets(ld, h, object_links, DOMAIN object_links)

\* LinkCollection._merge_or_mode(object_links)
_merge_or_mode(ld, h, object_links) ==
    OrMergeSources(ld, h, object_links, DOMAIN object_links)

\* mutant of DuplicateMethod: the check is missing
DuplicateMethodUnchecked(method, methods) == FALSE

\* the record of an operation: its name, the method it ran for, whether it
\* raised, whether it removed a pair from the collection, whether it read the
\* scoring backend, that is the LinkFinder or the Rosetta hits
\* (consulted), and for get_links the classes of the objects it was given
OpOn(op, method, kinds, raised, removed, consulted) ==
    [op |-> op, method |-> method, kinds |-> kinds, raised |-> raised,
     removed |-> removed, consulted |-> consulted]

Op(op, method, raised, removed, consulted) ==
    OpOn(op, method, "none", raised, removed, consulted)

\* an operation returned, or raised, having left the collection as the step shows
OutcomeOn(op, method, kinds, raised, consulted) ==
    lastOp' = OpOn(op, method, kinds, raised,
                   Pairs(_link_data) \ Pairs(_link_data') # {}, consulted)

Outcome(op, method, raised, consulted) ==
    OutcomeOn(op, method, "none", raised, consulted)

\* get_links raised before it called _add_links_from_method
Raise(op, method, kinds, consulted) ==
    /\ UNCHANGED collVars
    /\ lastOp' = OpOn(op, method, kinds, TRUE, FALSE, consulted)

\* the check that opens _add_links_from_method
DuplicateMethod(method, methods) == method \in methods

\* the link map and ObjectLinks that _add_links_from_method(method, object_links)
\* leaves when it does not raise; `h` already holds the ObjectLinks of object_links
AddLinks(and_mode, methods, ld, h, object_links) ==
    IF Cardinality(methods) = 0
    THEN Coll(object_links, h)
    ELSE IF ~and_mode
         THEN _merge_or_mode(ld, h, object_links)
         ELSE _merge_and_mode(ld, h, object_links)

\* the ObjectLink stored for a pair
Stored(ld, p) == ld[p[1]][p[2]]

\* the ObjectLink references a link map holds
Refs(ld) == {ld[p[1]][p[2]] : p \in Pairs(ld)}

\* the ObjectLinks still reachable from the collection
Reachable(h, ld) == DictRestrict(h, Refs(ld))

\* _add_links_from_method returning at once, the method not registered, when
\* object_links is empty
_add_links_from_method_unless_empty(method, object_links, fresh) ==
    IF DuplicateMethod(method, _methods) \/ DOMAIN object_links = {}
    THEN UNCHANGED <<_and_mode, _methods, _link_data, heap, reported>>
    ELSE LET after == AddLinks(_and_mode, _methods, _link_data,
                               DictUpdate(heap, fresh), object_links)
         IN  /\ _link_data' = after.link_data
             /\ heap' = Reachable(after.heap, after.link_data)
             /\ _methods' = _methods \cup {method}
             /\ reported' = DictUpdate(reported,
                                method :> [s \in DOMAIN object_links |-> DOMAIN object_links[s]])
             /\ UNCHANGED _and_mode

\* LinkCollection._add_links_from_method(method, object_links), where `fresh` holds
\* the ObjectLinks the caller constructed for object_links.  A raise leaves
\* the collection as it was.
_add_links_from_method(method, object_links, fresh) ==
    IF DuplicateMethod(method, _methods)
    THEN UNCHANGED <<_and_mode, _methods, _link_data, heap, reported>>
    ELSE LET after == AddLinks(_and_mode, _methods, _link_data,
                               DictUpdate(heap, fresh), object_links)
         IN  /\ _link_data' = after.link_data
             /\ heap' = Reachable(after.heap, after.link_data)
             /\ _methods' = _methods \cup {method}
             /\ reported' = DictUpdate(reported,
                                method :> [s \in DOMAIN object_links |-> DOMAIN object_links[s]])
             /\ UNCHANGED _and_mode

---------------------------------------------------------------------------
(* LinkCollection filters.  A callable is modelled by the set of things it   *)
(* accepts: (source, target) pairs for a predicate on ObjectLinks, objects   *)
(* for a predicate on sources or targets.                                    *)

\* the first loop of filter_links / filter_targets: each source of sources_list
\* keeps the targets the callable accepts; a source left without targets is
\* appended to to_remove.  Indexing a source that is no key raises (KeyError).
RECURSIVE FilterLoop(_, _, _, _)
FilterLoop(ld, accepted, sources_list, to_remove) ==
    IF sources_list = << >>
    THEN [link_data |-> ld, to_remove |-> to_remove, raised |-> FALSE]
    ELSE LET source == Head(sources_list)
         IN  IF source \notin DOMAIN ld
             THEN [link_data |-> ld, to_remove |-> to_remove, raised |-> TRUE]
             ELSE LET kept == DictRestrict(ld[source],
                                  {t \in DOMAIN ld[source] : <<source, t>> \in accepted})
                  IN  FilterLoop([ld EXCEPT ![source] = kept], accepted,
                                 Tail(sources_list),
                                 IF DOMAIN kept = {} THEN Append(to_remove, source)
                                                     ELSE to_remove)

\* mutant of the second loop: nothing is deleted
DeleteLoopSkipped(ld, to_remove) == [link_data |-> ld, raised |-> FALSE]

\* the second loop: for source in to_remove: del self._link_data[source]
RECURSIVE DeleteLoop(_, _)
DeleteLoop(ld, to_remove) ==
    IF to_remove = << >>
    THEN [link_data |-> ld, raised |-> FALSE]
    ELSE LET source == Head(to_remove)
         IN  IF source \notin DOMAIN ld
             THEN [link_data |-> ld, raised |-> TRUE]
             ELSE DeleteLoop(DictRestrict(ld, (DOMAIN ld) \ {source}), Tail(to_remove))

\* a set as a list, in some order
RECURSIVE SeqOf(_)
SeqOf(S) == IF S = {} THEN << >>
            ELSE LET x == CHOOSE y \in S : TRUE IN <<x>> \o SeqOf(S \ {x})

\* the `sources` argument: the default None, or a list
SourcesNone == [given |-> FALSE, list |-> << >>]
SourcesList(list) == [given |-> TRUE, list |-> list]

\* mutant of the shared body: the loop always runs over the keys of the link map
FilterByEverySource(ld, accepted, sources) ==
    LET looped == FilterLoop(ld, accepted, SeqOf(DOMAIN ld), << >>)
    IN  DeleteLoop(looped.link_data, looped.to_remove)

\* the body shared by filter_links and filter_targets; with sources = None the
\* loop runs over the keys of the link map
FilterBy(ld, accepted, sources) ==
    LET sources_list == IF ~sources.given THEN SeqOf(DOMAIN ld) ELSE sources.list
        looped == FilterLoop(ld, accepted, sources_list, << >>)
    IN  IF looped.raised
        THEN [link_data |-> looped.link_data, raised |-> TRUE]
        ELSE DeleteLoop(looped.link_data, looped.to_remove)

\* a filter that, having emptied the collection, leaves it as __init__ does
FilteredStartingOver(result, op) ==
    /\ _link_data' = result.link_data
    /\ heap' = Reachable(heap, result.link_data)
    /\ Outcome(op, NoMethod, result.raised, FALSE)
    /\ IF result.link_data = EmptyDict
       THEN _and_mode' = TRUE /\ _methods' = {}
       ELSE UNCHANGED <<_and_mode, _methods>>
    /\ UNCHANGED reported
    /\ UNCHANGED setupVars
    /\ UNCHANGED configVars
    /\ UNCHANGED dlVars
    /\ UNCHANGED objVars

\* what a filter leaves behind
Filtered(result, op) ==
    /\ _link_data' = result.link_data
    /\ heap' = Reachable(heap, result.link_data)
    /\ Outcome(op, NoMethod, result.raised, FALSE)
    /\ UNCHANGED <<_and_mode, _methods, reported>>
    /\ UNCHANGED setupVars
    /\ UNCHANGED configVars
    /\ UNCHANGED dlVars
    /\ UNCHANGED objVars

\* the lists a caller may pass as `sources`
SourcesArgs ==
    {SourcesNone} \cup
    {SourcesList(l) : l \in UNION {[1..n -> GCFs] : n \in 0..MaxSourcesArg}}

\* LinkCollection.filter_links(callable_obj, sources=None); the callable is
\* only ever applied to ObjectLinks of the collection
filter_links ==
    \E accepted \in SUBSET Pairs(_link_data), sources \in SourcesArgs :
        Filtered(FilterBy(_link_data, accepted, sources), "filter_links")

\* LinkCollection.filter_targets(callable_obj, sources=None)
filter_targets ==
    \E accepted \in SUBSET Spectra, sources \in SourcesArgs :
        Filtered(FilterBy(_link_data, GCFs \X accepted, sources), "filter_targets")

\* LinkCollection.filter_sources(callable_obj)
filter_sources ==
    \E accepted \in SUBSET GCFs :
        Filtered([link_data |-> DictRestrict(_link_data, accepted), raised |-> FALSE],
                 "filter_sources")

\* LinkCollection.filter_no_shared_strains()
filter_no_shared_strains ==
    Filtered(FilterBy(_link_data,
                      {p \in Pairs(_link_data) :
                          Len(SharedStrains(heap, Stored(_link_data, p))) > 0},
                      SourcesNone),
             "filter_no_shared_strains")

FilterOps == {"filter_links", "filter_targets", "filter_sources", "filter_no_shared_strains"}

---------------------------------------------------------------------------
(* MetcalfScoring.setup and its cache file *)

\* the sizes of the universe the context starts with: bgcs, gcfs, spectra,
\* molfams, strains
BaseCounts == <<3, 2, 2, 1, 2>>

\* a DataLinks / LinkFinder structure, known by the universe it was computed
\* from; NotBuilt stands for None
NotBuilt == [built |-> FALSE, from |-> <<0, 0, 0, 0, 0>>]
BuiltFrom(counts) == [built |-> TRUE, from |-> counts]

\* the cache file: absent; present but not loadable (load_pickled_data gives
\* None); or holding (counts, datalinks, linkfinder)
NoCacheFile ==
    [exists |-> FALSE, loadable |-> FALSE, counts |-> <<0, 0, 0, 0, 0>>,
     datalinks |-> NotBuilt, linkfinder |-> NotBuilt]
CorruptCacheFile ==
    [exists |-> TRUE, loadable |-> FALSE, counts |-> <<0, 0, 0, 0, 0>>,
     datalinks |-> NotBuilt, linkfinder |-> NotBuilt]
\* save_pickled_data((dataset_counts, DATALINKS, LINKFINDER), cache_file)
SavedCacheFile(counts, datalinks, linkfinder) ==
    [exists |-> TRUE, loadable |-> TRUE, counts |-> counts,
     datalinks |-> datalinks, linkfinder |-> linkfinder]

\* the loop that compares the cached counts with dataset_counts
CountsMatch(counts, dataset_counts) ==
    \A i \in 1..Len(counts) : counts[i] = dataset_counts[i]

\* the cache block with an unreadable file taken for a failed check: the class
\* attributes stay as they were
AfterCacheLoadKeepingOnCorrupt(file, dataset_counts, datalinks, linkfinder) ==
    IF file.exists /\ file.loadable /\ CountsMatch(file.counts, dataset_counts)
    THEN [datalinks |-> file.datalinks, linkfinder |-> file.linkfinder]
    ELSE [datalinks |-> datalinks, linkfinder |-> linkfinder]

\* the class attributes after the `if os.path.exists(cache_file)` block
AfterCacheLoad(file, dataset_counts, datalinks, linkfinder) ==
    IF ~file.exists
    THEN [datalinks |-> datalinks, linkfinder |-> linkfinder]
    ELSE LET cache_ok == ~file.loadable \/ CountsMatch(file.counts, dataset_counts)
         IN  IF ~cache_ok
             THEN [datalinks |-> datalinks, linkfinder |-> linkfinder]
             ELSE IF file.loadable
                  THEN [datalinks |-> file.datalinks, linkfinder |-> file.linkfinder]
                  ELSE [datalinks |-> NotBuilt, linkfinder |-> NotBuilt]

\* setup that runs the correlation backend on every call
NeedsPreprocessingAlways(datalinks) == TRUE

\* the condition under which setup runs the correlation backend
NeedsPreprocessing(datalinks) == ~datalinks.built

\* what setup found on disk
Found(file, dataset_counts) ==
    IF ~file.exists THEN "none"
    ELSE IF ~file.loadable THEN "corrupt"
    ELSE IF CountsMatch(file.counts, dataset_counts) THEN "match"
    ELSE "mismatch"

\* MetcalfScoring.setup(npl)
setup ==
    LET dataset_counts == npl_counts
        loaded == AfterCacheLoad(cache_file, dataset_counts, DATALINKS, LINKFINDER)
    IN  /\ IF NeedsPreprocessing(loaded.datalinks)
           THEN /\ DATALINKS' = BuiltFrom(dataset_counts)
                /\ LINKFINDER' = BuiltFrom(dataset_counts)
                /\ cache_file' = SavedCacheFile(dataset_counts, DATALINKS', LINKFINDER')
           ELSE /\ DATALINKS' = loaded.datalinks
                /\ LINKFINDER' = loaded.linkfinder
                /\ UNCHANGED cache_file
        /\ lastSetup' = [found |-> Found(cache_file, dataset_counts),
                         recomputed |-> NeedsPreprocessing(loaded.datalinks)]
        /\ lastOp' = Op("setup", NoMethod, FALSE, FALSE,
                        NeedsPreprocessing(loaded.datalinks))
        /\ UNCHANGED npl_counts
        /\ UNCHANGED collVars
        /\ UNCHANGED configVars
        /\ UNCHANGED dlVars
        /\ UNCHANGED objVars

\* the universe gains a BGC, GCF, Spectrum, MolecularFamily or Strain
Growth(counts) ==
    (counts[1] + counts[2] + counts[3] + counts[4] + counts[5]) -
    (BaseCounts[1] + BaseCounts[2] + BaseCounts[3] + BaseCounts[4] + BaseCounts[5])

ChangeUniverse ==
    /\ Growth(npl_counts) < MaxGrowth
    /\ \E i \in 1..5 : npl_counts' = [npl_counts EXCEPT ![i] = @ + 1]
    /\ lastOp' = Op("change_universe", NoMethod, FALSE, FALSE, FALSE)
    /\ UNCHANGED <<cache_file, DATALINKS, LINKFINDER, lastSetup>>
    /\ UNCHANGED collVars
    /\ UNCHANGED configVars
    /\ UNCHANGED dlVars
    /\ UNCHANGED objVars

\* a new process starts: the class attributes are None again, the file stays
NewProcess ==
    /\ DATALINKS.built
    /\ DATALINKS' = NotBuilt
    /\ LINKFINDER' = NotBuilt
    /\ lastOp' = Op("new_process", NoMethod, FALSE, FALSE, FALSE)
    /\ UNCHANGED <<npl_counts, cache_file, lastSetup>>
    /\ UNCHANGED collVars
    /\ UNCHANGED configVars
    /\ UNCHANGED dlVars
    /\ UNCHANGED objVars

\* the cache file is deleted, or its content damaged, between two runs
RemoveCacheFile ==
    /\ cache_file.exists
    /\ cache_file' = NoCacheFile
    /\ lastOp' = Op("remove_cache", NoMethod, FALSE, FALSE, FALSE)
    /\ UNCHANGED <<npl_counts, DATALINKS, LINKFINDER, lastSetup>>
    /\ UNCHANGED collVars
    /\ UNCHANGED configVars
    /\ UNCHANGED dlVars
    /\ UNCHANGED objVars

DamageCacheFile ==
    /\ cache_file.exists
    /\ cache_file.loadable
    /\ cache_file' = CorruptCacheFile
    /\ lastOp' = Op("damage_cache", NoMethod, FALSE, FALSE, FALSE)
    /\ UNCHANGED <<npl_counts, DATALINKS, LINKFINDER, lastSetup>>
    /\ UNCHANGED collVars
    /\ UNCHANGED configVars
    /\ UNCHANGED dlVars
    /\ UNCHANGED objVars

NoSetupYet == [found |-> "none", recomputed |-> FALSE]

\* the attributes MetcalfScoring.__init__ and RosettaScoring.__init__ set
NoCutoff == [none |-> TRUE, value |-> 0]
CutoffAt(v) == [none |-> FALSE, value |-> v]

ConfigInit ==
    /\ cutoff = CutoffAt(1)
    /\ standardised = TRUE
    /\ bgc_to_gcf = TRUE
    /\ spec_score_cutoff = 0
    /\ bgc_score_cutoff = 0
    /\ PublicAsPrivate

---------------------------------------------------------------------------
(* The files of a Downloader *)

\* the RefSeq accessions of the project's genomes
Accessions == {"A", "B"}

\* the archives a Downloader fetches: the antiSMASH zip of an accession, and
\* the MiBIG JSON archive
MiBIG == "mibig_json"
Archives == Accessions \cup {MiBIG}

\* no Downloader method is running
Idle == [pc |-> "idle"]

\* missing_antismash.txt does not exist
NoFile == [exists |-> FALSE, lines |-> {}]

\* a member of an archive: the directory it lies in and its extension
Member(dir, ext) == [dir |-> dir, ext |-> ext]

\* namelist() of a downloaded archive
Members ==
    {Member("", "gbk"), Member("knownclusterblast", "txt"), Member("", "html")}

\* what a run of _download_antismash_zip or _download_mibig_json did: the
\* archive it was called for, how it ended, whether the 'completed' marker was
\* there when it started, the members it extracted
Ran(op, archive, result, started_completed, extracted_now) ==
    [op |-> op, archive |-> archive, result |-> result,
     started_completed |-> started_completed, extracted_now |-> extracted_now]

\* what a run of _download_genomics_data did: how it ended, the lines of
\* missing_antismash.txt when it started, the accessions it looked up in the
\* antiSMASH database and those of them the database had no download for
RanGenomics(result, missing_before, looked_up, not_found) ==
    [op |-> "_download_genomics_data", result |-> result,
     missing_before |-> missing_before, looked_up |-> looked_up,
     not_found |-> not_found]

\* the history of the runs: the run that ended last and, for every archive,
\* whether some run extracted it to the end
History(last, finished) == [last |-> last, finished |-> finished]

\* nothing was run yet
NoRun == History([op |-> "none"], [a \in Archives |-> FALSE])

\* a fresh local cache: no archive downloaded, nothing extracted
DownloaderInit ==
    /\ disk = [archive |-> [a \in Archives |-> "absent"],
               extracted |-> [a \in Archives |-> {}],
               completed |-> [a \in Archives |-> FALSE],
               missing |-> NoFile]
    /\ frame = Idle
    /\ lastRun = NoRun

---------------------------------------------------------------------------
(* The state MetcalfScoring.setup starts from *)

\* a fresh process on a fresh root directory
SetupInit ==
    /\ npl_counts = BaseCounts
    /\ cache_file = NoCacheFile
    /\ DATALINKS = NotBuilt
    /\ LINKFINDER = NotBuilt
    /\ lastSetup = NoSetupYet

---------------------------------------------------------------------------
(* A generic scoring method: get_links hands a result mapping of its own  *)
(* ObjectLinks to the collection                                          *)

\* the reference of the ObjectLink that `method` constructs for (source, target)
Ref(method, source, target) == <<method, source, target>>

\* the payload `method` computes for (source, target)
Data(method, source, target) == <<"data", method, source, target>>

\* the result mappings a method may report, as source -> set of targets
ResultShapes(sources, targets) ==
    UNION {[S -> SUBSET targets] : S \in SUBSET sources}

\* the source -> target -> ObjectLink mapping of a result shape
ObjectLinksOf(method, shape) ==
    [s \in DOMAIN shape |-> [t \in shape[s] |-> Ref(method, s, t)]]

\* the ObjectLinks constructed for a result shape
FreshLinks(method, shape) ==
    [r \in {Ref(method, p[1], p[2]) : p \in Pairs(ObjectLinksOf(method, shape))} |->
        ObjectLinkInit(r[2], r[3], method, Data(method, r[2], r[3]))]

\* method.get_links(objects, link_collection) of a generic method
AddFromMethod ==
    \E method \in GenericMethods :
      \E shape \in ResultShapes(GCFs, Spectra) :
        /\ _add_links_from_method(method, ObjectLinksOf(method, shape),
                                  FreshLinks(method, shape))
        /\ Outcome("add", method, DuplicateMethod(method, _methods), FALSE)
        /\ UNCHANGED setupVars
        /\ UNCHANGED configVars
        /\ UNCHANGED dlVars
        /\ UNCHANGED objVars

---------------------------------------------------------------------------
(* The correlation backend and MetcalfScoring.get_links *)

\* a score as an exact fraction num/den with den > 0
Score(n) == [num |-> n, den |-> 1]
ScoreMinus(x, e) == [num |-> x.num - e * x.den, den |-> x.den]
ScoreDiv(x, v) == [num |-> x.num, den |-> x.den * v]
ScoreAtLeast(x, c) == x.num >= c * x.den

\* the raw Metcalf score the backend holds for a metabolomic object and a GCF
RawScore(met, gcf) ==
    CASE met.kind = "Spectrum" /\ met.id = 0 /\ gcf.id = 0 -> 3
      [] met.kind = "Spectrum" /\ met.id = 0 /\ gcf.id = 1 -> 0
      [] met.kind = "Spectrum" /\ met.id = 1 /\ gcf.id = 0 -> 5
      [] met.kind = "Spectrum" /\ met.id = 1 /\ gcf.id = 1 -> 2
      [] met.kind = "MolecularFamily" /\ gcf.id = 0 -> 4
      [] OTHER -> 1

\* linkfinder.metcalf_expected[m][g] and linkfinder.metcalf_variance_sqrt[m][g]
metcalf_expected(m, g) == IF m = 1 /\ g = 1 THEN -2 ELSE m * g
metcalf_variance_sqrt(m, g) == IF m = g THEN 1 ELSE 2

\* a (3, x) result array as the list of its columns
Column(src_id, dst_id, score) == [src |-> src_id, dst |-> dst_id, score |-> score]

\* the columns the backend reports for the input objects against `others`:
\* every pair, in input order, whose raw score passes the cutoff it was given
RECURSIVE ScoreColumns(_, _, _)
ScoreColumns(objects, others, cut) ==
    IF objects = << >> THEN << >>
    ELSE LET obj == Head(objects)
             cols == [i \in 1..Len(others) |->
                         Column(obj.id, others[i].id,
                                Score(IF obj.kind = "GCF" THEN RawScore(others[i], obj)
                                                          ELSE RawScore(obj, others[i])))]
             Passes(c) == cut.none \/ ScoreAtLeast(c.score, cut.value)
         IN  SelectSeq(cols, Passes) \o ScoreColumns(Tail(objects), others, cut)

\* linkfinder.get_links(datalinks, objects, self.name, cutoff): two arrays for
\* GCF input (GCF-Spectrum, GCF-MolecularFamily), one array otherwise
LinkFinderGetLinks(objects, cut) ==
    IF TypeOf(objects[1]) = "GCF"
    THEN <<ScoreColumns(objects, npl__spectra, cut),
           ScoreColumns(objects, npl__molfams, cut)>>
    ELSE <<ScoreColumns(objects, npl__gcfs, cut)>>

\* the standardised score of a raw score for strain counts (met_strains, gen_strains)
FinalScore(raw, met_strains, gen_strains) ==
    ScoreDiv(ScoreMinus(raw, metcalf_expected(met_strains, gen_strains)),
             metcalf_variance_sqrt(met_strains, gen_strains))

\* mutant of the cutoff test: a score equal to the cutoff is dropped
KeptAboveCutoff(final_score, cut) ==
    cut.none \/ final_score.num > cut.value * final_score.den

\* the test `self.cutoff is None or (final_score >= self.cutoff)`
KeptByCutoff(final_score, cut) == cut.none \/ ScoreAtLeast(final_score, cut.value)

\* one array standardised and cut: met_objs is the public list the metabolomic
\* ids index, met_is_src tells which row holds the metabolomic id
StandardisedColumns(cols, met_objs, met_is_src, cut) ==
    LET Std(c) ==
            LET met_obj == At(met_objs, IF met_is_src THEN c.src ELSE c.dst)
                gcf == At(npl_gcfs, IF met_is_src THEN c.dst ELSE c.src)
            IN  Column(c.src, c.dst,
                       FinalScore(c.score, Cardinality(StrainsOf(met_obj)),
                                  Cardinality(StrainsOf(gcf))))
        Keep(c) == KeptByCutoff(c.score, cut)
    IN  SelectSeq([i \in 1..Len(cols) |-> Std(cols[i])], Keep)

\* MetcalfScoring._metcalf_postprocess_met(linkfinder, results, input_type)
_metcalf_postprocess_met(results, input_type, cut) ==
    LET met_objs == IF input_type = "Spectrum" THEN npl_spectra ELSE npl_molfams
    IN  <<StandardisedColumns(results[1], met_objs, TRUE, cut)>>

\* MetcalfScoring._metcalf_postprocess_gen(linkfinder, results, input_type)
_metcalf_postprocess_gen(results, input_type, cut) ==
    <<StandardisedColumns(results[1], npl_spectra, FALSE, cut),
      StandardisedColumns(results[2], npl_molfams, FALSE, cut)>>

\* d[k] = v
DictSet(d, k, v) == [x \in (DOMAIN d) \cup {k} |-> IF x = k THEN v ELSE d[x]]

\* results[source][target] = payload, creating results[source] when missing
SetPayload(results, source, target, payload) ==
    DictSet(results, source,
            DictSet(IF source \in DOMAIN results THEN results[source] ELSE EmptyDict,
                    target, payload))

\* the loop over the columns of one array that fills metcalf_results;
\* gcf_is_src tells which row holds the GCF id, others is the private list the
\* other id indexes
RECURSIVE MetcalfCollect(_, _, _, _)
MetcalfCollect(metcalf_results, cols, gcf_is_src, others) ==
    IF cols = << >> THEN metcalf_results
    ELSE LET c == Head(cols)
             gcf == At(npl__gcfs, IF gcf_is_src THEN c.src ELSE c.dst)
             obj == At(others, IF gcf_is_src THEN c.dst ELSE c.src)
             source == IF gcf_is_src THEN gcf ELSE obj
             target == IF gcf_is_src THEN obj ELSE gcf
         IN  MetcalfCollect(SetPayload(metcalf_results, source, target, c.score),
                            Tail(cols), gcf_is_src, others)

\* every id of the columns indexes the list it is looked up in
IdsInRange(cols, src_list, dst_list) ==
    \A i \in 1..Len(cols) :
        /\ cols[i].src + 1 \in DOMAIN src_list
        /\ cols[i].dst + 1 \in DOMAIN dst_list

\* mutant of the cutoff argument: self.cutoff is handed to the backend always
BackendCutoffAlways == cutoff

\* the cutoff argument of linkfinder.get_links: self.cutoff when the scores are
\* not standardised, None when they are
BackendCutoff == IF ~standardised THEN cutoff ELSE NoCutoff

\* the arrays get_links works on: the backend's, cut by the backend when the
\* scores are not standardised, else fetched uncut, standardised and cut here
MetcalfResults(objects, input_type) ==
    IF ~standardised
    THEN LinkFinderGetLinks(objects, BackendCutoff)
    ELSE IF input_type # "GCF"
         THEN _metcalf_postprocess_met(LinkFinderGetLinks(objects, BackendCutoff),
                                       input_type, cutoff)
         ELSE _metcalf_postprocess_gen(LinkFinderGetLinks(objects, BackendCutoff),
                                       input_type, cutoff)

\* metcalf_results built from the first array alone
MetcalfLinksFirstArray(results, input_type) ==
    MetcalfCollect(EmptyDict, results[1], input_type = "GCF",
                   IF input_type = "MolecularFamily" THEN npl__molfams ELSE npl__spectra)

\* metcalf_results as get_links builds it from the arrays
MetcalfLinks(results, input_type) ==
    IF input_type = "GCF"
    THEN MetcalfCollect(MetcalfCollect(EmptyDict, results[1], TRUE, npl__spectra),
                        results[2], TRUE, npl__molfams)
    ELSE MetcalfCollect(EmptyDict, results[1], FALSE,
                        IF input_type = "Spectrum" THEN npl__spectra ELSE npl__molfams)

\* the source -> target -> ObjectLink mapping of a source -> target -> payload
\* mapping, and the ObjectLinks constructed for it
LinkRefs(method, payloads) ==
    [s \in DOMAIN payloads |-> [t \in DOMAIN payloads[s] |-> Ref(method, s, t)]]
LinkObjects(method, payloads) ==
    [r \in {Ref(method, p[1], p[2]) : p \in Pairs(payloads)} |->
        ObjectLinkInit(r[2], r[3], method, payloads[r[2]][r[3]])]

\* get_links without its first check
UniformlyTypedUnchecked(objects) == TRUE

\* the first check of get_links: all(isinstance(x, type(objects[0])) for x in objects)
UniformlyTyped(objects) ==
    \A i \in 1..Len(objects) : IsInstance(objects[i], TypeOf(objects[1]))

\* MetcalfScoring.get_links without its BGC check
MetcalfUnsupportedNone(obj) == FALSE

\* the classes get_links refuses: BGC for Metcalf, MolecularFamily for Rosetta
MetcalfUnsupported(obj) == IsInstance(obj, "BGC")
RosettaUnsupported(obj) == IsInstance(obj, "MolecularFamily")

TheMetcalf == Method("MetcalfScoring", 1)
TheRosetta == Method("RosettaScoring", 1)

\* what a caller handed to get_links: nothing, objects of more than one class,
\* or objects of the one class named
KindsOf(objects) ==
    IF Len(objects) = 0 THEN "empty"
    ELSE IF \E i \in 1..Len(objects) : objects[i].kind # objects[1].kind THEN "mixed"
    ELSE objects[1].kind

\* the `objects` lists a caller may pass
ObjectLists == UNION {[1..n -> AllObjects] : n \in 0..MaxObjects}

\* whether every id the backend reported resolves in the lists get_links and
\* the postprocessing index (an IndexError otherwise)
MetcalfIdsResolve(raw, input_type) ==
    IF input_type = "GCF"
    THEN /\ IdsInRange(raw[1], npl__gcfs, npl__spectra)
         /\ IdsInRange(raw[2], npl__gcfs, npl__molfams)
    ELSE IdsInRange(raw[1],
                    IF input_type = "Spectrum" THEN npl__spectra ELSE npl__molfams,
                    npl__gcfs)

\* MetcalfScoring.get_links(objects, link_collection)
MetcalfGetLinks ==
    \E objects \in ObjectLists :
      LET self == TheMetcalf
          kinds == KindsOf(objects)
      IN  /\ IF ~UniformlyTyped(objects)
             THEN Raise("get_links", self, kinds, FALSE)
             ELSE IF Len(objects) = 0
             THEN Raise("get_links", self, kinds, FALSE)
             ELSE IF MetcalfUnsupported(objects[1])
             THEN Raise("get_links", self, kinds, FALSE)
             ELSE LET input_type == TypeOf(objects[1])
                  IN  IF ~MetcalfIdsResolve(LinkFinderGetLinks(objects, NoCutoff), input_type)
                      THEN Raise("get_links", self, kinds, TRUE)
                      ELSE LET metcalf_results ==
                                   MetcalfLinks(MetcalfResults(objects, input_type), input_type)
                           IN  /\ _add_links_from_method(self, LinkRefs(self, metcalf_results),
                                                       LinkObjects(self, metcalf_results))
                               /\ OutcomeOn("get_links", self, kinds,
                                            DuplicateMethod(self, _methods), TRUE)
          /\ UNCHANGED setupVars
          /\ UNCHANGED configVars
          /\ UNCHANGED dlVars
          /\ UNCHANGED objVars

---------------------------------------------------------------------------
(* The Rosetta hits and RosettaScoring.get_links *)

\* a RosettaHit; n tells otherwise equal hit records apart
Hit(n, spec, bgc, spec_match_score, bgc_match_score) ==
    [n |-> n, spec |-> spec, bgc |-> bgc,
     spec_match_score |-> spec_match_score, bgc_match_score |-> bgc_match_score]

\* RosettaScoring.ROSETTA_OBJ._rosetta_hits
_rosetta_hits ==
    <<Hit(1, Obj("Spectrum", 0), Obj("BGC", 0), 5, 5),
      Hit(2, Obj("Spectrum", 0), Obj("BGC", 1), 5, 4),
      Hit(3, Obj("Spectrum", 1), Obj("BGC", 2), 3, 5),
      Hit(4, Obj("Spectrum", 0), Obj("BGC", 0), 6, 6)>>

\* the values the Rosetta cutoffs are set to
RosettaCutoffs == {0, 5}

\* _include_hit with the Spectrum-side test alone
_include_hit_spec_only(hit) == ~(hit.spec_match_score < spec_score_cutoff)

\* RosettaScoring._include_hit(hit)
_include_hit(hit) ==
    ~(hit.spec_match_score < spec_score_cutoff \/ hit.bgc_match_score < bgc_score_cutoff)

\* the orders list(set(...)) may give the elements of a set
ListsOfSet(S) ==
    {l \in [1..Cardinality(S) -> S] : \A i, j \in DOMAIN l : l[i] = l[j] => i = j}

\* results[src][target] gets the hit as the link's only data, whatever was there
AddHitOverwrite(results, src, target, hit) == SetPayload(results, src, target, <<hit>>)

\* results[src][target] gets the hit: appended to the data of the link already
\* there, else the data of a new link
AddHit(results, src, target, hit) ==
    SetPayload(results, src, target,
               IF src \in DOMAIN results /\ target \in DOMAIN results[src]
               THEN Append(results[src][target], hit)
               ELSE <<hit>>)

\* the inner loop `for hit in ro_hits` for one input object
RECURSIVE RosettaHitLoop(_, _, _, _)
RosettaHitLoop(results, obj, hits, bgc_input) ==
    IF hits = << >> THEN results
    ELSE LET hit == Head(hits)
             matches == IF bgc_input THEN obj.id = hit.bgc.id ELSE obj.id = hit.spec.id
             src == IF bgc_input
                    THEN (IF ~bgc_to_gcf THEN obj ELSE Parent(obj))
                    ELSE obj
             target == IF bgc_input
                       THEN hit.spec
                       ELSE (IF ~bgc_to_gcf THEN hit.bgc ELSE Parent(hit.bgc))
         IN  RosettaHitLoop(IF matches THEN AddHit(results, src, target, hit) ELSE results,
                            obj, Tail(hits), bgc_input)

\* the outer loop over the input objects
RECURSIVE RosettaLoop(_, _, _, _)
RosettaLoop(results, objects, ro_hits, bgc_input) ==
    IF objects = << >> THEN results
    ELSE RosettaLoop(RosettaHitLoop(results, Head(objects), ro_hits, bgc_input),
                     Tail(objects), ro_hits, bgc_input)

\* get_links with the conversion `list(itertools.chain.from_iterable(...))`:
\* the member BGCs of each GCF in turn, a BGC as often as it is met
RECURSIVE GcfsToBgcsChained(_)
GcfsToBgcsChained(objects) ==
    IF objects = << >> THEN {<< >>}
    ELSE {first \o rest : first \in ListsOfSet(MemberBgcs(Head(objects))),
                          rest \in GcfsToBgcsChained(Tail(objects))}

\* the lists that list(set(itertools.chain.from_iterable(x.bgcs for x in objects)))
\* may be: each member BGC once, in the order the set gives
GcfsToBgcs(objects) ==
    ListsOfSet(UNION {MemberBgcs(objects[i]) : i \in 1..Len(objects)})

\* the lists `objects` may be once GCF input has been converted
RosettaObjects(objects) ==
    IF IsInstance(objects[1], "GCF") THEN GcfsToBgcs(objects) ELSE {objects}

\* `results` as get_links builds it for a list of BGCs or of Spectra
RosettaResults(objects) ==
    RosettaLoop(EmptyDict, objects, SelectSeq(_rosetta_hits, _include_hit),
                IsInstance(objects[1], "BGC"))

\* RosettaScoring.get_links(objects, link_collection)
RosettaGetLinks ==
    \E objects \in ObjectLists :
      LET self == TheRosetta
          kinds == KindsOf(objects)
      IN  /\ IF ~UniformlyTyped(objects)
             THEN Raise("get_links", self, kinds, FALSE)
             ELSE IF Len(objects) = 0
             THEN Raise("get_links", self, kinds, FALSE)
             ELSE IF RosettaUnsupported(objects[1])
             THEN Raise("get_links", self, kinds, FALSE)
             ELSE \E converted \in RosettaObjects(objects) :
                  IF Len(converted) = 0
                  THEN Raise("get_links", self, kinds, TRUE)
                  ELSE LET results == RosettaResults(converted)
                       IN  /\ _add_links_from_method(self, LinkRefs(self, results),
                                                   LinkObjects(self, results))
                           /\ OutcomeOn("get_links", self, kinds,
                                        DuplicateMethod(self, _methods), TRUE)
          /\ UNCHANGED setupVars
          /\ UNCHANGED configVars
          /\ UNCHANGED dlVars
          /\ UNCHANGED objVars

---------------------------------------------------------------------------
(* TestScoring.get_links *)

TheTest == Method("TestScoring", 1)

\* self.mc, the MetcalfScoring instance a TestScoring constructs for itself; it
\* keeps the cutoff and standardised of MetcalfScoring.__init__
TheTestMc == Method("MetcalfScoring", 2)

\* self.value = 0.5
TestValue == [num |-> 1, den |-> 2]

\* int(len(mc_results) * self.value)
NumToKeep(len) == (len * TestValue.num) \div TestValue.den

\* random.random(): a float no code of the module reads
RandomPayload == <<"random">>

\* the sources list(mc_results.links.items())[:num_to_keep] may hold: the dict's
\* order is the order of insertion, which the collection does not record
KeptSources(ld) ==
    {kept \in SUBSET DOMAIN ld : Cardinality(kept) = NumToKeep(Cardinality(DOMAIN ld))}

\* link._method_data[self] = random.random()
SetRandom(h, links, self) ==
    [r \in DOMAIN h |->
        IF r \in links
        THEN [h[r] EXCEPT !._method_data = DictSet(@, self, RandomPayload)]
        ELSE h[r]]

\* del link._method_data[self.mc], for links that hold the key
DelPayload(h, links, mc) ==
    [r \in DOMAIN h |->
        IF r \in links
        THEN [h[r] EXCEPT !._method_data = DictRestrict(@, (DOMAIN @) \ {mc})]
        ELSE h[r]]

\* the loop over the links of `results` that ran to its end
Relabel(h, links, self, mc) == DelPayload(SetRandom(h, links, self), links, mc)

\* the links the loop of TestScoring.get_links may have relabelled when the del
\* raises KeyError at `failing`: those of the sources it went through before,
\* and some of the failing link's source
RelabelledBefore(ld, h, results, failing, mc) ==
    LET HasMc(ref) == mc \in DOMAIN h[ref]._method_data
        source == CHOOSE s \in DOMAIN results : failing \in Refs(DictRestrict(results, {s}))
        clean == {s \in (DOMAIN results) \ {source} :
                     \A ref \in Refs(DictRestrict(results, {s})) : HasMc(ref)}
    IN  {Refs(DictRestrict(results, A)) \cup D :
            A \in SUBSET clean,
            D \in SUBSET {ref \in Refs(DictRestrict(results, {source})) : HasMc(ref)}}

\* TestScoring.get_links(objects, link_collection)
TestGetLinks ==
    \E objects \in ObjectLists :
      LET self == TheTest
          mc == TheTestMc
          kinds == KindsOf(objects)
      IN  /\ IF ~UniformlyTyped(objects)
             THEN Raise("get_links", self, kinds, FALSE)
             ELSE IF Len(objects) = 0
             THEN Raise("get_links", self, kinds, FALSE)
             ELSE IF MetcalfUnsupported(objects[1])
             THEN Raise("get_links", self, kinds, FALSE)
             ELSE IF ~MetcalfIdsResolve(LinkFinderGetLinks(objects, NoCutoff), TypeOf(objects[1]))
             THEN Raise("get_links", self, kinds, TRUE)
             ELSE IF DuplicateMethod(mc, _methods)
             THEN Raise("get_links", self, kinds, TRUE)
             ELSE
               LET input_type == TypeOf(objects[1])
                   metcalf_results == MetcalfLinks(MetcalfResults(objects, input_type), input_type)
                   mc_results == AddLinks(_and_mode, _methods, _link_data,
                                          DictUpdate(heap, LinkObjects(mc, metcalf_results)),
                                          LinkRefs(mc, metcalf_results))
                   mc_reported == DictUpdate(reported,
                                      mc :> [s \in DOMAIN metcalf_results |->
                                                 DOMAIN metcalf_results[s]])
               IN  \E kept \in KeptSources(mc_results.link_data) :
                     LET results == DictRestrict(mc_results.link_data, kept)
                         lacking == {ref \in Refs(results) :
                                        mc \notin DOMAIN mc_results.heap[ref]._method_data}
                     IN  IF lacking # {}
                         THEN \E failing \in lacking :
                              \E done \in RelabelledBefore(mc_results.link_data, mc_results.heap,
                                                           results, failing, mc) :
                                /\ _link_data' = mc_results.link_data
                                /\ heap' = Reachable(SetRandom(Relabel(mc_results.heap, done,
                                                                       self, mc),
                                                               {failing}, self),
                                                     mc_results.link_data)
                                /\ _methods' = _methods \cup {mc}
                                /\ reported' = mc_reported
                                /\ UNCHANGED _and_mode
                                /\ OutcomeOn("get_links", self, kinds, TRUE, TRUE)
                         ELSE IF DuplicateMethod(self, _methods \cup {mc})
                         THEN /\ _link_data' = mc_results.link_data
                              /\ heap' = Reachable(Relabel(mc_results.heap, Refs(results),
                                                           self, mc),
                                                   mc_results.link_data)
                              /\ _methods' = _methods \cup {mc}
                              /\ reported' = mc_reported
                              /\ UNCHANGED _and_mode
                              /\ OutcomeOn("get_links", self, kinds, TRUE, TRUE)
                         ELSE LET after == AddLinks(_and_mode, _methods \cup {mc},
                                                    mc_results.link_data,
                                                    Relabel(mc_results.heap, Refs(results),
                                                            self, mc),
                                                    results)
                              IN  /\ _link_data' = after.link_data
                                  /\ heap' = Reachable(after.heap, after.link_data)
                                  /\ _methods' = _methods \cup {mc, self}
                                  /\ reported' = DictUpdate(mc_reported,
                                                     self :> [s \in DOMAIN results |->
                                                                 DOMAIN results[s]])
                                  /\ UNCHANGED _and_mode
                                  /\ OutcomeOn("get_links", self, kinds, FALSE, TRUE)
          /\ UNCHANGED setupVars
          /\ UNCHANGED configVars
          /\ UNCHANGED dlVars
          /\ UNCHANGED objVars

---------------------------------------------------------------------------
(* ObjectLinks in the hands of a caller: constructed, merged, given data and *)
(* strains, and asked for a method's payload                                 *)

\* the list object a caller passes as shared_strains when it constructs the
\* link `ref`
OwnList(ref) == <<"list", ref>>

\* the strains a caller puts into shared_strains lists
Strains == {"strainA"}

\* the contents a list passed as shared_strains may have
StrainLists == UNION {[1..n -> Strains] : n \in 0..1}

\* the data a caller stores with set_data
NewData == <<"newdata">>

\* the ObjectLinks a caller may construct
CallerRefs == {Ref(m, Obj("GCF", 0), t) : m \in GenericMethods, t \in Spectra}

\* ObjectLink(source, target, method, data) and
\* ObjectLink(source, target, method, data, shared_strains)
Construct ==
    \E ref \in CallerRefs \ DOMAIN heap, explicit \in BOOLEAN :
        /\ Cardinality(DOMAIN heap) < MaxLinks
        /\ IF explicit
           THEN \E given \in StrainLists :
                  /\ heap' = DictUpdate(heap, ref :>
                                 ObjectLinkWith(ref[2], ref[3], ref[1],
                                                Data(ref[1], ref[2], ref[3]), OwnList(ref)))
                  /\ lists' = DictUpdate(lists, OwnList(ref) :> given)
           ELSE /\ heap' = DictUpdate(heap, ref :>
                               ObjectLinkInit(ref[2], ref[3], ref[1],
                                              Data(ref[1], ref[2], ref[3])))
                /\ lists' = lists
        /\ lastCall' = Call("__init__", ref, NoRef, NoValue, "none")
        /\ UNCHANGED <<_and_mode, _methods, _link_data, reported, lastOp>>
        /\ UNCHANGED setupVars
        /\ UNCHANGED configVars
        /\ UNCHANGED dlVars

\* link.shared_strains.append(strain)
AppendStrain ==
    \E ref \in DOMAIN heap, strain \in Strains :
        /\ Len(SharedStrains(heap, ref)) < MaxStrains
        /\ lists' = [lists EXCEPT ![heap[ref].shared_strains] = Append(@, strain)]
        /\ lastCall' = Call("append", ref, NoRef, NoValue, "none")
        /\ UNCHANGED <<collVars, lastOp>>
        /\ UNCHANGED setupVars
        /\ UNCHANGED configVars
        /\ UNCHANGED dlVars

\* self._merge(other_link), which returns self
Merge ==
    \E self \in DOMAIN heap, other_link \in DOMAIN heap :
        /\ heap' = _merge(heap, self, other_link)
        /\ lastCall' = Call("_merge", self, other_link, self, "none")
        /\ UNCHANGED <<_and_mode, _methods, _link_data, reported, lastOp, lists>>
        /\ UNCHANGED setupVars
        /\ UNCHANGED configVars
        /\ UNCHANGED dlVars

\* ObjectLink.set_data(method, newdata)
set_data ==
    \E self \in DOMAIN heap, method \in GenericMethods :
        /\ heap' = [heap EXCEPT ![self]._method_data = DictSet(@, method, NewData)]
        /\ lastCall' = Call("set_data", self, method, NoValue, "none")
        /\ UNCHANGED <<_and_mode, _methods, _link_data, reported, lastOp, lists>>
        /\ UNCHANGED setupVars
        /\ UNCHANGED configVars
        /\ UNCHANGED dlVars

\* ObjectLink.data(method): self._method_data[method], a KeyError when the
\* method is no key
data ==
    \E self \in DOMAIN heap, method \in GenericMethods :
        /\ lastCall' = IF method \in DOMAIN heap[self]._method_data
                       THEN Call("data", self, method, heap[self]._method_data[method], "none")
                       ELSE Call("data", self, method, NoValue, "KeyError")
        /\ UNCHANGED <<collVars, lastOp, lists>>
        /\ UNCHANGED setupVars
        /\ UNCHANGED configVars
        /\ UNCHANGED dlVars

\* ObjectLink.__getitem__(name): the payload when name is a key, else
\* object.__getitem__(self, name), an attribute `object` does not have
__getitem__ ==
    \E self \in DOMAIN heap, name \in GenericMethods :
        /\ lastCall' = IF name \in DOMAIN heap[self]._method_data
                       THEN Call("__getitem__", self, name, heap[self]._method_data[name], "none")
                       ELSE Call("__getitem__", self, name, NoValue, "AttributeError")
        /\ UNCHANGED <<collVars, lastOp, lists>>
        /\ UNCHANGED setupVars
        /\ UNCHANGED configVars
        /\ UNCHANGED dlVars

InitObjects ==
    /\ LinkCollectionInit(FALSE)
    /\ reported = EmptyDict
    /\ lastOp = Op("init", NoMethod, FALSE, FALSE, FALSE)
    /\ ObjectsInit
    /\ SetupInit
    /\ ConfigInit
    /\ DownloaderInit

NextObjects ==
    \/ Construct
    \/ AppendStrain
    \/ Merge
    \/ set_data
    \/ data
    \/ __getitem__

SpecObjects == InitObjects /\ [][NextObjects]_vars

---------------------------------------------------------------------------
(* The collection fed by generic methods *)

Init ==
    /\ \E and_mode \in BOOLEAN : LinkCollectionInit(and_mode)
    /\ reported = EmptyDict
    /\ lastOp = Op("init", NoMethod, FALSE, FALSE, FALSE)
    /\ ObjectsInit
    /\ SetupInit
    /\ ConfigInit
    /\ DownloaderInit

Next == AddFromMethod

Spec == Init /\ [][Next]_vars

---------------------------------------------------------------------------
(* The collection fed by generic methods and filtered in between *)

NextFilter ==
    \/ AddFromMethod
    \/ filter_links
    \/ filter_targets
    \/ filter_sources
    \/ filter_no_shared_strains

SpecFilter == Init /\ [][NextFilter]_vars

---------------------------------------------------------------------------
(* The collection fed by MetcalfScoring and RosettaScoring, once setup has  *)
(* run and the caller has set the methods' parameters                       *)

\* the values the caller sets self.cutoff to
MetcalfCutoffs == {NoCutoff, CutoffAt(1)}

InitLinked ==
    /\ \E and_mode \in BOOLEAN : LinkCollectionInit(and_mode)
    /\ reported = EmptyDict
    /\ lastOp = Op("init", NoMethod, FALSE, FALSE, FALSE)
    /\ ObjectsInit
    /\ npl_counts = BaseCounts
    /\ cache_file = SavedCacheFile(BaseCounts, BuiltFrom(BaseCounts), BuiltFrom(BaseCounts))
    /\ DATALINKS = BuiltFrom(BaseCounts)
    /\ LINKFINDER = BuiltFrom(BaseCounts)
    /\ lastSetup = [found |-> "none", recomputed |-> TRUE]
    /\ cutoff \in MetcalfCutoffs
    /\ standardised \in BOOLEAN
    /\ bgc_to_gcf \in BOOLEAN
    /\ spec_score_cutoff \in RosettaCutoffs
    /\ bgc_score_cutoff \in RosettaCutoffs
    /\ DownloaderInit

InitLinks ==
    /\ InitLinked
    /\ PublicAsPrivate

NextLinks ==
    \/ MetcalfGetLinks
    \/ RosettaGetLinks

SpecLinks == InitLinks /\ [][NextLinks]_vars

---------------------------------------------------------------------------
(* MetcalfScoring.get_links on a context whose public lists hold the objects *)
(* in any order                                                              *)

InitContext ==
    /\ InitLinked
    /\ bgc_to_gcf = TRUE
    /\ spec_score_cutoff = 0
    /\ bgc_score_cutoff = 0
    /\ npl_gcfs \in ListsOfSet(GCFs)
    /\ npl_spectra \in ListsOfSet(Spectra)
    /\ npl_molfams \in ListsOfSet(MolFams)

NextContext == MetcalfGetLinks

SpecContext == InitContext /\ [][NextContext]_vars

---------------------------------------------------------------------------
(* The collection fed by MetcalfScoring and RosettaScoring with their       *)
(* default parameters, and filtered by shared strains                       *)

InitStrains ==
    /\ InitLinks
    /\ ConfigInit

NextStrains ==
    \/ MetcalfGetLinks
    \/ RosettaGetLinks
    \/ filter_no_shared_strains

SpecStrains == InitStrains /\ [][NextStrains]_vars

---------------------------------------------------------------------------
(* The collection fed by RosettaScoring and by TestScoring, which runs a       *)
(* MetcalfScoring of its own, with their default parameters                   *)

NextTest ==
    \/ RosettaGetLinks
    \/ TestGetLinks

SpecTest == InitStrains /\ [][NextTest]_vars

---------------------------------------------------------------------------
(* ScoringMethod.sort and LinkCollection.get_sorted_links *)

\* whether the score x is below the score y
ScoreLess(x, y) == x.num * y.den < y.num * x.den

\* sorted(objects, key, reverse) keeps the order of equal keys: x goes behind
\* every element it does not strictly precede
RECURSIVE InsertSorted(_, _, _, _)
InsertSorted(sorted, x, key, reverse) ==
    IF sorted = << >> THEN <<x>>
    ELSE LET first == Head(sorted)
             precedes == IF reverse THEN ScoreLess(key[first], key[x])
                                    ELSE ScoreLess(key[x], key[first])
         IN  IF precedes THEN <<x>> \o sorted
             ELSE <<first>> \o InsertSorted(Tail(sorted), x, key, reverse)

\* sorted(objects, key, reverse), where key[x] is the key function's value at x
RECURSIVE SortedByKey(_, _, _)
SortedByKey(objects, key, reverse) ==
    IF objects = << >> THEN << >>
    ELSE InsertSorted(SortedByKey(SubSeq(objects, 1, Len(objects) - 1), key, reverse),
                      objects[Len(objects)], key, reverse)

\* mutant of MetcalfScoring.sort: the reverse argument is ignored
MetcalfSortAscending(h, self, objects, reverse) ==
    LET key == [objlink \in {objects[i] : i \in DOMAIN objects} |->
                    h[objlink]._method_data[self]]
    IN  SortedByKey(objects, key, FALSE)

\* MetcalfScoring.sort(objects, reverse): sorted by objlink[self]
MetcalfSort(h, self, objects, reverse) ==
    LET key == [objlink \in {objects[i] : i \in DOMAIN objects} |->
                    h[objlink]._method_data[self]]
    IN  SortedByKey(objects, key, reverse)

\* method.sort(objects, reverse): ScoringMethod, RosettaScoring and TestScoring
\* return the list as it is
Sort(h, method, objects, reverse) ==
    IF method.cls = "MetcalfScoring" THEN MetcalfSort(h, method, objects, reverse)
    ELSE objects

\* LinkCollection.get_sorted_links(method, source, reverse, strict), where
\* `values` is self._link_data[source].values() in the dict's order
get_sorted_links(h, values, method, reverse, strict) ==
    LET Has(link) == method \in LinkMethods(h, link)
        Lacks(link) == method \notin LinkMethods(h, link)
        sorted_links_for_method == Sort(h, method, SelectSeq(values, Has), reverse)
    IN  IF ~strict THEN sorted_links_for_method \o SelectSeq(values, Lacks)
        ELSE sorted_links_for_method

\* the arguments of a get_sorted_links call
SortArgs(method, reverse, strict) == [method |-> method, reverse |-> reverse, strict |-> strict]

\* the objects a caller asks sorted links for
SortSources == GCFs \cup Spectra

\* a call of get_sorted_links; a source that is no key raises (KeyError)
GetSortedLinks ==
    \E method \in {TheMetcalf, TheRosetta}, source \in SortSources,
       reverse \in BOOLEAN, strict \in BOOLEAN :
        /\ IF source \notin DOMAIN _link_data
           THEN lastCall' = Call("get_sorted_links", source,
                                 SortArgs(method, reverse, strict), NoValue, "KeyError")
           ELSE \E order \in ListsOfSet(DOMAIN _link_data[source]) :
                  LET values == [i \in DOMAIN order |-> _link_data[source][order[i]]]
                  IN  lastCall' = Call("get_sorted_links", source,
                                       SortArgs(method, reverse, strict),
                                       get_sorted_links(heap, values, method, reverse, strict),
                                       "none")
        /\ UNCHANGED <<collVars, lastOp, lists>>
        /\ UNCHANGED setupVars
        /\ UNCHANGED configVars
        /\ UNCHANGED dlVars

\* an OR-mode collection, Metcalf without a cutoff, Rosetta with both of its
\* cutoffs raised
InitSorted ==
    /\ InitLinks
    /\ ~_and_mode
    /\ cutoff = NoCutoff
    /\ standardised = TRUE
    /\ bgc_to_gcf = TRUE
    /\ spec_score_cutoff = 5
    /\ bgc_score_cutoff = 5

NextSorted ==
    \/ MetcalfGetLinks
    \/ RosettaGetLinks
    \/ GetSortedLinks

SpecSorted == InitSorted /\ [][NextSorted]_vars

---------------------------------------------------------------------------
(* The operations of LinkCollection that assign nothing, and the collection   *)
(* fed by MetcalfScoring and RosettaScoring, filtered, sorted and read        *)

\* the properties and methods that return what the collection holds
ReadNames == {"methods", "sources", "links", "source_count", "method_count",
              "__len__", "get_all_targets"}

\* a read of the collection: it returns and assigns nothing
Read ==
    \E name \in ReadNames :
        /\ lastOp' = Op(name, NoMethod, FALSE, FALSE, FALSE)
        /\ UNCHANGED collVars
        /\ UNCHANGED setupVars
        /\ UNCHANGED configVars
        /\ UNCHANGED dlVars
        /\ UNCHANGED objVars

\* get_sorted_links as an operation on the collection: it raises KeyError for a
\* source that is no key, else it returns a new list and assigns nothing
SortedLinks ==
    \E method \in {TheMetcalf, TheRosetta}, source \in SortSources,
       reverse \in BOOLEAN, strict \in BOOLEAN :
        /\ lastOp' = Op("get_sorted_links", method, source \notin DOMAIN _link_data,
                        FALSE, FALSE)
        /\ UNCHANGED collVars
        /\ UNCHANGED setupVars
        /\ UNCHANGED configVars
        /\ UNCHANGED dlVars
        /\ UNCHANGED objVars

NextFrame ==
    \/ MetcalfGetLinks
    \/ RosettaGetLinks
    \/ filter_links
    \/ filter_targets
    \/ filter_sources
    \/ filter_no_shared_strains
    \/ SortedLinks
    \/ Read

SpecFrame == InitStrains /\ [][NextFrame]_vars

---------------------------------------------------------------------------
(* Downloader._download_antismash_zip and Downloader._download_mibig_json, *)
(* statement by statement; the process may be stopped between any two      *)

\* everything outside the Downloader
scoringVars == <<collVars, lastOp, setupVars, configVars, objVars>>

\* the locals of a running _download_antismash_zip(accession_id) or
\* _download_mibig_json(): where it is, whether it found a usable local
\* archive, the members its loop has not visited yet
ArchiveFrame(pc, op, archive, cached, todo, started_completed, extracted_now,
             looked_up, caller) ==
    [pc |-> pc, op |-> op, archive |-> archive, cached |-> cached, todo |-> todo,
     started_completed |-> started_completed, extracted_now |-> extracted_now,
     looked_up |-> looked_up, caller |-> caller]

\* the method was called by the user, not by _download_genomics_data
NoCaller == [pc |-> "none"]

ArchiveOps == {"_download_antismash_zip", "_download_mibig_json"}

\* the members the extraction takes: for an antiSMASH zip those that end in
\* .gbk or start with <accession>/knownclusterblast, for the MiBIG archive all
\* (extractall)
Selected(archive, member) ==
    \/ archive = MiBIG
    \/ member.ext = "gbk"
    \/ member.dir = "knownclusterblast"

SelectedMembers(archive) == {m \in Members : Selected(archive, m)}

\* the loop over the members ends after the first member
LoopDoneAfterFirst(todo) == todo # Members

\* the loop over the members has visited every member
LoopDone(todo) == todo = {}

\* the method is called
StartArchive ==
    /\ frame = Idle
    /\ \E archive \in Archives :
         frame' = ArchiveFrame("exists",
                               IF archive = MiBIG THEN "_download_mibig_json"
                                                  ELSE "_download_antismash_zip",
                               archive, FALSE, {}, disk.completed[archive], {},
                               FALSE, NoCaller)
    /\ UNCHANGED <<disk, lastRun>>
    /\ UNCHANGED scoringVars

\* _download_antismash_zip has ended in the loop of _download_genomics_data:
\* True counts a genome found, False puts the accession into missing_files, an
\* exception ends _download_genomics_data too
Resumed(caller, accession, result, looked_up) ==
    LET seen == [caller EXCEPT
                    !.looked_up = IF looked_up THEN @ \cup {accession} ELSE @,
                    !.not_found = IF result = "False" THEN @ \cup {accession} ELSE @]
    IN  IF result = "True"
        THEN /\ frame' = [seen EXCEPT !.found = @ + 1, !.i = @ + 1]
             /\ UNCHANGED lastRun
        ELSE IF result = "False"
        THEN /\ frame' = [seen EXCEPT !.missing_files = @ \cup {accession}, !.i = @ + 1]
             /\ UNCHANGED lastRun
        ELSE /\ frame' = Idle
             /\ lastRun' = History(RanGenomics(result, seen.missing_before,
                                               seen.looked_up, seen.not_found),
                                   lastRun.finished)

\* the call ends: it returned True or False, raised, or the process was
\* stopped; looked_up tells whether it fetched the antiSMASH database page
EndArchiveHaving(result, looked_up) ==
    IF frame.caller = NoCaller
    THEN /\ frame' = Idle
         /\ lastRun' = History(Ran(frame.op, frame.archive, result,
                                   frame.started_completed, frame.extracted_now),
                               lastRun.finished)
    ELSE Resumed(frame.caller, frame.archive, result, looked_up)

EndArchive(result) == EndArchiveHaving(result, frame.looked_up)

\* the extraction loop ran to its end in the call that is running
ExtractedToTheEnd == SelectedMembers(frame.archive) \subseteq frame.extracted_now

\* if os.path.exists(local_path)
ArchiveExists ==
    /\ frame.pc = "exists"
    /\ frame' = [frame EXCEPT !.pc = IF disk.archive[frame.archive] # "absent"
                                     THEN "open" ELSE "lookup"]
    /\ UNCHANGED <<disk, lastRun>>
    /\ UNCHANGED scoringVars

\* zipfile.ZipFile(local_path) / tarfile.open(local_path) on the local file: a
\* complete archive opens; a partly written zip raises BadZipFile; a partly
\* written tar.gz opens when its first header is readable and raises otherwise
ArchiveOpen ==
    /\ frame.pc = "open"
    /\ \/ /\ \/ disk.archive[frame.archive] = "complete"
             \/ disk.archive[frame.archive] = "partial" /\ frame.archive = MiBIG
          /\ frame' = [frame EXCEPT !.pc = "marker", !.cached = TRUE]
       \/ /\ disk.archive[frame.archive] = "partial"
          /\ frame' = [frame EXCEPT !.pc = "unlink"]
    /\ UNCHANGED <<disk, lastRun>>
    /\ UNCHANGED scoringVars

\* os.unlink(local_path)
ArchiveUnlink ==
    /\ frame.pc = "unlink"
    /\ disk' = [disk EXCEPT !.archive[frame.archive] = "absent"]
    /\ frame' = [frame EXCEPT !.pc = "lookup"]
    /\ UNCHANGED lastRun
    /\ UNCHANGED scoringVars

\* if not cached: the antiSMASH database page is fetched and searched for the
\* download list; without one the method returns False.  The MiBIG URL needs
\* no lookup.
ArchiveLookup ==
    /\ frame.pc = "lookup"
    /\ \/ /\ frame' = [frame EXCEPT !.pc = "create", !.looked_up = frame.archive # MiBIG]
          /\ UNCHANGED lastRun
       \/ /\ frame.archive # MiBIG
          /\ EndArchiveHaving("False", TRUE)
       \/ /\ frame.archive # MiBIG
          /\ EndArchiveHaving("raised", TRUE)
    /\ UNCHANGED disk
    /\ UNCHANGED scoringVars

\* with open(local_path, 'wb') as f
ArchiveCreate ==
    /\ frame.pc = "create"
    /\ disk' = [disk EXCEPT !.archive[frame.archive] = "partial"]
    /\ frame' = [frame EXCEPT !.pc = "stream"]
    /\ UNCHANGED lastRun
    /\ UNCHANGED scoringVars

\* the download is streamed into the file to its end, or the connection fails
ArchiveStream ==
    /\ frame.pc = "stream"
    /\ \/ /\ disk' = [disk EXCEPT !.archive[frame.archive] = "complete"]
          /\ frame' = [frame EXCEPT !.pc = "marker"]
          /\ UNCHANGED lastRun
       \/ /\ EndArchive("raised")
          /\ UNCHANGED disk
    /\ UNCHANGED scoringVars

\* if os.path.exists(os.path.join(output_path, 'completed')): return True
ArchiveMarker ==
    /\ frame.pc = "marker"
    /\ IF disk.completed[frame.archive]
       THEN EndArchive("True")
       ELSE /\ frame' = [frame EXCEPT !.pc = "extract", !.todo = Members]
            /\ UNCHANGED lastRun
    /\ UNCHANGED disk
    /\ UNCHANGED scoringVars

\* one turn of the loop over the members (extractall for MiBIG): a selected
\* member is extracted; reading a partly written archive raises at the latest
\* when its end is reached
ArchiveExtract ==
    /\ frame.pc = "extract"
    /\ \/ /\ ~LoopDone(frame.todo)
          /\ \E member \in frame.todo :
               IF Selected(frame.archive, member)
               THEN /\ disk' = [disk EXCEPT !.extracted[frame.archive] = @ \cup {member}]
                    /\ frame' = [frame EXCEPT !.todo = @ \ {member},
                                              !.extracted_now = @ \cup {member}]
               ELSE /\ frame' = [frame EXCEPT !.todo = @ \ {member}]
                    /\ UNCHANGED disk
          /\ UNCHANGED lastRun
       \/ /\ LoopDone(frame.todo)
          /\ disk.archive[frame.archive] = "complete"
          /\ frame' = [frame EXCEPT !.pc = "completed"]
          /\ lastRun' = [lastRun EXCEPT !.finished[frame.archive] =
                             @ \/ ExtractedToTheEnd]
          /\ UNCHANGED disk
       \/ /\ disk.archive[frame.archive] = "partial"
          /\ EndArchive("raised")
          /\ UNCHANGED disk
    /\ UNCHANGED scoringVars

\* open(os.path.join(output_path, 'completed'), 'w').close(); return True
ArchiveCompleted ==
    /\ frame.pc = "completed"
    /\ disk' = [disk EXCEPT !.completed[frame.archive] = TRUE]
    /\ EndArchive("True")
    /\ UNCHANGED scoringVars

\* the process is stopped
ArchiveStopped ==
    /\ frame.pc # "idle"
    /\ frame.op \in ArchiveOps
    /\ EndArchive("stopped")
    /\ UNCHANGED disk
    /\ UNCHANGED scoringVars

NextArchive ==
    \/ StartArchive
    \/ ArchiveExists
    \/ ArchiveOpen
    \/ ArchiveUnlink
    \/ ArchiveLookup
    \/ ArchiveCreate
    \/ ArchiveStream
    \/ ArchiveMarker
    \/ ArchiveExtract
    \/ ArchiveCompleted
    \/ ArchiveStopped

InitArchive ==
    /\ Init
    /\ ~_and_mode

SpecArchive == InitArchive /\ [][NextArchive]_vars

---------------------------------------------------------------------------
(* Downloader._download_genomics_data, one genome record at a time *)

\* a genome record: which accession its genome_ID holds, the RefSeq accession
\* it stands for, and whether the RefSeq_accession string has a '.' in it
GenomeRecord(id_kind, accession, dotted) ==
    [id_kind |-> id_kind, accession |-> accession, dotted |-> dotted]

GenomeRecords ==
    {GenomeRecord("RefSeq_accession", "A", TRUE),
     GenomeRecord("RefSeq_accession", "B", TRUE),
     GenomeRecord("RefSeq_accession", "B", FALSE),
     GenomeRecord("GenBank_accession", "A", TRUE),
     GenomeRecord("none", "A", TRUE)}

\* the genome_records lists of a project
GenomeRecordLists == UNION {[1..n -> GenomeRecords] : n \in 0..MaxRecords}

\* f.write('{}\n'.format(mf)) for every accession of missing_files
Line(mf) == <<mf, "\n">>
WrittenFile(missing_files) == [exists |-> TRUE, lines |-> {Line(mf) : mf \in missing_files}]

\* l.strip() for every line of the file, when the file exists
Strip(line) == line[1]
ReadMissing(file) == IF file.exists THEN {Strip(l) : l \in file.lines} ELSE {}

\* the locals of a running _download_genomics_data(genome_records), and what it
\* did so far
GenomicsFrame(pc, records, i, found, missing_files, missing_before, looked_up,
              not_found) ==
    [pc |-> pc, op |-> "_download_genomics_data", records |-> records, i |-> i,
     found |-> found, missing_files |-> missing_files,
     missing_before |-> missing_before, looked_up |-> looked_up,
     not_found |-> not_found]

\* the run ends
EndGenomics(result) ==
    /\ frame' = Idle
    /\ lastRun' = History(RanGenomics(result, frame.missing_before, frame.looked_up,
                                      frame.not_found),
                          lastRun.finished)

\* the method is called: missing_files is read from missing_antismash.txt
StartGenomics ==
    /\ frame = Idle
    /\ \E records \in GenomeRecordLists :
         frame' = GenomicsFrame("loop", records, 1, 0, ReadMissing(disk.missing),
                                ReadMissing(disk.missing), {}, {})
    /\ UNCHANGED <<disk, lastRun>>
    /\ UNCHANGED scoringVars

\* the accession is not in missing_files: self._download_antismash_zip(accession)
CallAntismashZip(accession) ==
    /\ frame' = ArchiveFrame("exists", "_download_antismash_zip", accession, FALSE, {},
                             disk.completed[accession], {}, FALSE, frame)
    /\ UNCHANGED lastRun

\* one genome record of the loop, up to the call of _download_antismash_zip:
\* accession.rindex('.') raises ValueError for a RefSeq accession without '.';
\* `resolved` tells whether _get_refseq_from_genbank returned
GenomeRecordStep(gr, resolved) ==
    IF gr.id_kind = "RefSeq_accession" /\ ~gr.dotted
    THEN EndGenomics("raised")
    ELSE IF gr.id_kind = "none" \/ (gr.id_kind = "GenBank_accession" /\ ~resolved)
    THEN /\ frame' = [frame EXCEPT !.i = @ + 1]
         /\ UNCHANGED lastRun
    ELSE IF gr.accession \in frame.missing_files
    THEN /\ frame' = [frame EXCEPT !.i = @ + 1]
         /\ UNCHANGED lastRun
    ELSE CallAntismashZip(gr.accession)

\* for i, gr in enumerate(genome_records)
GenomicsRecord ==
    /\ frame.pc = "loop"
    /\ frame.op = "_download_genomics_data"
    /\ frame.i <= Len(frame.records)
    /\ \E resolved \in BOOLEAN : GenomeRecordStep(frame.records[frame.i], resolved)
    /\ UNCHANGED disk
    /\ UNCHANGED scoringVars

\* the loop is over: missing_antismash.txt is written from missing_files
GenomicsWrite ==
    /\ frame.pc = "loop"
    /\ frame.op = "_download_genomics_data"
    /\ frame.i > Len(frame.records)
    /\ disk' = [disk EXCEPT !.missing = WrittenFile(frame.missing_files)]
    /\ frame' = [frame EXCEPT !.pc = "found"]
    /\ UNCHANGED lastRun
    /\ UNCHANGED scoringVars

\* if found == 0: raise Exception('Failed to download ANY genome data!')
GenomicsFound ==
    /\ frame.pc = "found"
    /\ EndGenomics(IF frame.found = 0 THEN "raised_none_found" ELSE "returned")
    /\ UNCHANGED disk
    /\ UNCHANGED scoringVars

NextGenomics ==
    \/ StartGenomics
    \/ GenomicsRecord
    \/ GenomicsWrite
    \/ GenomicsFound
    \/ ArchiveExists
    \/ ArchiveOpen
    \/ ArchiveUnlink
    \/ ArchiveLookup
    \/ ArchiveCreate
    \/ ArchiveStream
    \/ ArchiveMarker
    \/ ArchiveExtract
    \/ ArchiveCompleted

SpecGenomics == InitArchive /\ [][NextGenomics]_vars

---------------------------------------------------------------------------
(* The process that calls MetcalfScoring.setup while the universe and the *)
(* cache file change around it                                             *)

InitSetup ==
    /\ LinkCollectionInit(TRUE)
    /\ reported = EmptyDict
    /\ lastOp = Op("init", NoMethod, FALSE, FALSE, FALSE)
    /\ ObjectsInit
    /\ SetupInit
    /\ ConfigInit
    /\ DownloaderInit

NextSetup ==
    \/ setup
    \/ ChangeUniverse
    \/ NewProcess
    \/ RemoveCacheFile
    \/ DamageCacheFile

SpecSetup == InitSetup /\ [][NextSetup]_vars

\* C8: a setup call that finds no cache file, or a cache file whose stored
\* cardinalities differ from the current universe's, recomputes the
\* statistics through the backend and leaves a cache file holding the current
\* cardinalities; the structures it leaves are those of the current universe,
\* whatever an earlier setup left in the process.
C8_FingerprintInvalidation ==
    (lastOp.op = "setup" /\ lastSetup.found \in {"none", "mismatch"}) =>
        /\ lastSetup.recomputed
        /\ cache_file.exists /\ cache_file.loadable
        /\ cache_file.counts = npl_counts
        /\ DATALINKS = BuiltFrom(npl_counts)
        /\ LINKFINDER = BuiltFrom(npl_counts)

---------------------------------------------------------------------------
(* Properties of the collection fed by generic methods *)

\* the (source, target) pairs of a reported result mapping
ShapePairs(shape) == UNION {{<<s, t>> : t \in shape[s]} : s \in DOMAIN shape}

\* the method a successful add has just registered
Added(before, after) == CHOOSE m \in after \ before : TRUE

\* C1: in AND mode, after any sequence of add_from_method calls, every pair
\* present has an ObjectLink whose contributing methods are exactly the methods
\* that have contributed to the collection.
C1_AndModeLinksCarryAllMethods ==
    _and_mode =>
        \A p \in Pairs(_link_data) :
            LinkMethods(heap, Stored(_link_data, p)) = _methods

\* an AND-mode collection that two methods contributed to and that kept a pair
C1_Witness ==
    /\ _and_mode
    /\ Cardinality(_methods) >= 2
    /\ Pairs(_link_data) # {}

\* C2: in OR mode, after any sequence of add_from_method calls, every pair
\* present carries the payload of at least one contributing method, and every
\* pair a method reported is present and carries that method's payload (so a
\* pair reported by several methods carries the payload of each of them).
C2_OrModeLinksCarryReporters ==
    ~_and_mode =>
        /\ \A p \in Pairs(_link_data) :
               /\ LinkMethods(heap, Stored(_link_data, p)) # {}
               /\ LinkMethods(heap, Stored(_link_data, p)) \subseteq _methods
        /\ \A m \in DOMAIN reported : \A p \in ShapePairs(reported[m]) :
               /\ p \in Pairs(_link_data)
               /\ m \in LinkMethods(heap, Stored(_link_data, p))
               /\ heap[Stored(_link_data, p)]._method_data[m] = Data(m, p[1], p[2])

\* an OR-mode collection holding a pair reported by two methods next to a pair
\* reported by one
C2_Witness ==
    /\ ~_and_mode
    /\ \E p \in Pairs(_link_data) : LinkMethodCount(heap, Stored(_link_data, p)) >= 2
    /\ \E p \in Pairs(_link_data) : LinkMethodCount(heap, Stored(_link_data, p)) = 1

\* C3: AND-merge intersection law: once two (or more) result mappings were
\* added to an AND-mode collection, its pairs are the pairs common to all of
\* them, and its sources are exactly the sources that kept a target.
C3_AndMergeIntersection ==
    (_and_mode /\ Cardinality(_methods) >= 2) =>
        /\ Pairs(_link_data) =
               {p \in GCFs \X Spectra :
                   \A m \in DOMAIN reported : p \in ShapePairs(reported[m])}
        /\ DOMAIN _link_data = {p[1] : p \in Pairs(_link_data)}

\* A = {s: {t0, t1}} and B = {s: {t1}} (in either order) left {s: {t1}}, and a
\* source reported by only one of the two is gone
C3_Witness ==
    /\ _and_mode
    /\ Cardinality(_methods) = 2
    /\ \E s \in GCFs, t \in Spectra :
          /\ DOMAIN _link_data = {s}
          /\ DOMAIN _link_data[s] = {t}
          /\ \E m \in DOMAIN reported :
                /\ s \in DOMAIN reported[m]
                /\ reported[m][s] = Spectra
          /\ \E m \in DOMAIN reported : DOMAIN reported[m] = GCFs

\* C4: OR-merge union law: the sources of an OR-mode collection are the union
\* of the sources of the result mappings added to it, and the targets of each
\* source are the union of the targets reported for it.
C4_OrMergeUnion ==
    ~_and_mode =>
        /\ DOMAIN _link_data = UNION {DOMAIN reported[m] : m \in DOMAIN reported}
        /\ \A s \in DOMAIN _link_data :
               DOMAIN _link_data[s] =
                   UNION {reported[m][s] : m \in {k \in DOMAIN reported : s \in DOMAIN reported[k]}}

\* two mappings with different sources and overlapping targets were united
C4_Witness ==
    /\ ~_and_mode
    /\ Cardinality(_methods) = 2
    /\ \E a, b \in DOMAIN reported :
          /\ DOMAIN reported[a] # DOMAIN reported[b]
          /\ \E s \in GCFs :
                /\ s \in DOMAIN reported[a] /\ s \in DOMAIN reported[b]
                /\ reported[a][s] # reported[b][s]
                /\ reported[a][s] # {} /\ reported[b][s] # {}
                /\ DOMAIN _link_data[s] = Spectra

\* C5: add_from_method with a method that is already in the method set raises
\* and leaves the link map, the ObjectLinks and the method set as they were;
\* so does get_links of a method instance that is already in the method set.
C5_DuplicateMethodRejected ==
    [][(lastOp'.op \in {"add", "get_links"} /\ lastOp'.method \in _methods) =>
          /\ lastOp'.raised
          /\ _link_data' = _link_data
          /\ heap' = heap
          /\ _methods' = _methods]_vars

\* a duplicate add was rejected on a collection that holds links
C5_Witness ==
    /\ lastOp.op = "add"
    /\ lastOp.raised
    /\ lastOp.method \in _methods
    /\ Pairs(_link_data) # {}

\* C9: when a method reports a pair that is already present, the ObjectLink
\* stored for the pair stays the stored one, keeps every payload it had and
\* gains the new method's payload.
C9_MergedIntoNeverReplaced ==
    [][(_methods' # _methods) =>
          LET m == Added(_methods, _methods')
          IN  \A p \in Pairs(_link_data) \cap ShapePairs(reported'[m]) :
                  /\ p \in Pairs(_link_data')
                  /\ Stored(_link_data', p) = Stored(_link_data, p)
                  /\ Stored(_link_data', p) # Ref(m, p[1], p[2])
                  /\ \A k \in LinkMethods(heap, Stored(_link_data, p)) :
                        /\ k \in LinkMethods(heap', Stored(_link_data, p))
                        /\ heap'[Stored(_link_data, p)]._method_data[k] =
                               heap[Stored(_link_data, p)]._method_data[k]
                  /\ m \in LinkMethods(heap', Stored(_link_data, p))
                  /\ heap'[Stored(_link_data, p)]._method_data[m] = Data(m, p[1], p[2])]_vars

\* a stored ObjectLink that was created by one method and carries the payload
\* of another as well
C9_Witness ==
    \E p \in Pairs(_link_data) :
        LET ref == Stored(_link_data, p)
        IN  /\ LinkMethodCount(heap, ref) >= 2
            /\ \E m \in LinkMethods(heap, ref) : ref # Ref(m, p[1], p[2])
            /\ \E m \in LinkMethods(heap, ref) : ref = Ref(m, p[1], p[2])

---------------------------------------------------------------------------
(* Properties of the filtered collection *)

\* C10 as claimed: a pair present in the collection is removed only by a
\* filtering operation; no add_from_method call removes a pair.
C10_OnlyFiltersRemove ==
    [][(Pairs(_link_data) \ Pairs(_link_data') # {}) => lastOp'.op \in FilterOps]_vars

\* C10: a pair present in the collection is removed only by a filtering
\* operation or by an AND-mode add_from_method: an OR-mode add removes no
\* pair, and an AND-mode add removes exactly the pairs that the new method's
\* result mapping does not contain.
C10_RemovedByFilterOrAndMerge ==
    [][LET removed == Pairs(_link_data) \ Pairs(_link_data')
       IN  /\ (removed # {}) =>
                  \/ lastOp'.op \in FilterOps
                  \/ lastOp'.op = "add" /\ _and_mode /\ _methods' # _methods
           /\ (_methods' # _methods) =>
                  removed = IF _and_mode
                            THEN Pairs(_link_data) \
                                     ShapePairs(reported'[Added(_methods, _methods')])
                            ELSE {}]_vars

\* an AND-mode add has just removed a pair and kept another
C10_Witness ==
    /\ _and_mode
    /\ lastOp.op = "add"
    /\ ~lastOp.raised
    /\ lastOp.removed
    /\ Pairs(_link_data) # {}

---------------------------------------------------------------------------
(* Properties of get_links of MetcalfScoring and RosettaScoring *)

\* the step left the links, the ObjectLinks and the method set as they were
CollectionUnchanged ==
    /\ _link_data' = _link_data
    /\ heap' = heap
    /\ _methods' = _methods

\* C6: get_links of MetcalfScoring or RosettaScoring, given a non-empty list
\* whose objects are not all of one class, raises and leaves the collection's
\* links and method set unchanged.
C6_MixedInputRejected ==
    [][(lastOp'.op = "get_links" /\ lastOp'.kinds = "mixed") =>
          /\ lastOp'.raised
          /\ CollectionUnchanged]_vars

\* Rosetta refused a mixed list on a collection that holds Metcalf's links
C6_Witness ==
    /\ lastOp.op = "get_links"
    /\ lastOp.method = TheRosetta
    /\ lastOp.kinds = "mixed"
    /\ lastOp.raised
    /\ _methods = {TheMetcalf}
    /\ Pairs(_link_data) # {}

\* C7: MetcalfScoring.get_links given BGCs, and RosettaScoring.get_links given
\* MolecularFamily objects, raise before the LinkFinder or the Rosetta hits
\* are read, and leave the collection's links and method set unchanged.
C7_UnsupportedInputRejected ==
    [][(/\ lastOp'.op = "get_links"
        /\ \/ lastOp'.method = TheMetcalf /\ lastOp'.kinds = "BGC"
           \/ lastOp'.method = TheRosetta /\ lastOp'.kinds = "MolecularFamily") =>
          /\ lastOp'.raised
          /\ ~lastOp'.consulted
          /\ CollectionUnchanged]_vars

\* Metcalf refused a list of BGCs on a collection that holds Rosetta's links
C7_Witness ==
    /\ lastOp.op = "get_links"
    /\ lastOp.method = TheMetcalf
    /\ lastOp.kinds = "BGC"
    /\ lastOp.raised
    /\ ~lastOp.consulted
    /\ _methods = {TheRosetta}
    /\ Pairs(_link_data) # {}

\* C16: filter_links(predicate) leaves exactly the pairs whose ObjectLink
\* satisfies the predicate, leaves no source without a target, keeps the
\* stored ObjectLinks and the method set as they are, and changes nothing when
\* it is applied a second time.
C16_FilterLinksKeepsAccepted ==
    /\ [](\A accepted \in SUBSET Pairs(_link_data) :
             LET once == FilterBy(_link_data, accepted, SourcesNone)
             IN  /\ ~once.raised
                 /\ Pairs(once.link_data) = accepted
                 /\ \A s \in DOMAIN once.link_data : DOMAIN once.link_data[s] # {}
                 /\ \A p \in accepted : Stored(once.link_data, p) = Stored(_link_data, p)
                 /\ FilterBy(once.link_data, accepted, SourcesNone) = once)
    /\ [][(lastOp'.op = "filter_links") =>
             /\ _methods' = _methods
             /\ \A p \in Pairs(_link_data') :
                    /\ p \in Pairs(_link_data)
                    /\ Stored(_link_data', p) = Stored(_link_data, p)
                    /\ heap'[Stored(_link_data', p)] = heap[Stored(_link_data, p)]]_vars

\* filter_links removed one of the two sources a method had reported with
\* targets to an OR-mode collection, and kept links of the other
C16_Witness ==
    /\ lastOp.op = "filter_links"
    /\ ~lastOp.raised
    /\ lastOp.removed
    /\ ~_and_mode
    /\ \E m \in _methods :
           /\ DOMAIN reported[m] = GCFs
           /\ \A s \in GCFs : reported[m][s] # {}
    /\ Cardinality(DOMAIN _link_data) = 1
    /\ Pairs(_link_data) # {}

\* the elements of a list
Range(list) == {list[i] : i \in DOMAIN list}

\* the link map filter_targets is to leave: every source of S keeps the
\* targets the predicate accepts and goes when none is left, every other
\* source keeps its target mapping
ExpectedTargets(ld, accepted, S) ==
    LET touched == S \cap DOMAIN ld
        Kept(s) == (DOMAIN ld[s]) \cap accepted
        remaining == {s \in DOMAIN ld : s \notin touched \/ Kept(s) # {}}
    IN  [s \in remaining |-> IF s \in touched THEN DictRestrict(ld[s], Kept(s)) ELSE ld[s]]

\* the sources a `sources` argument names
NamedSources(ld, sources) == IF sources.given THEN Range(sources.list) ELSE DOMAIN ld

OfTheCollection(ld, sources) ==
    sources.given =>
        /\ Range(sources.list) \subseteq DOMAIN ld
        /\ \A i, j \in DOMAIN sources.list : sources.list[i] = sources.list[j] => i = j

---------------------------------------------------------------------------
(* Properties of ObjectLinks in the hands of a caller *)

\* link._method_data
MethodData(h, ref) == h[ref]._method_data

\* C11: self._merge(other) makes self's method-to-payload mapping the union of
\* the two mappings with other's payload for every method both have, returns
\* self, and leaves other's mapping and the source, target and shared strains
\* of both links as they were.
C11_MergeIsUnionOtherWins ==
    [][(lastCall'.op = "_merge") =>
          LET self == lastCall'.self
              other == lastCall'.arg
          IN  /\ DOMAIN MethodData(heap', self) =
                     DOMAIN MethodData(heap, self) \cup DOMAIN MethodData(heap, other)
              /\ \A m \in DOMAIN MethodData(heap, other) :
                     MethodData(heap', self)[m] = MethodData(heap, other)[m]
              /\ \A m \in DOMAIN MethodData(heap, self) \ DOMAIN MethodData(heap, other) :
                     MethodData(heap', self)[m] = MethodData(heap, self)[m]
              /\ lastCall'.value = self
              /\ MethodData(heap', other) = MethodData(heap, other)
              /\ \A r \in {self, other} :
                     /\ heap'[r].source = heap[r].source
                     /\ heap'[r].target = heap[r].target
                     /\ heap'[r].shared_strains = heap[r].shared_strains
              /\ lists' = lists]_vars

\* a merge into another link where both had a payload of self's method and
\* other's payload replaced self's
C11_Witness ==
    /\ lastCall.op = "_merge"
    /\ lastCall.self # lastCall.arg
    /\ LinkMethodCount(heap, lastCall.self) = 2
    /\ lastCall.self[1] \in LinkMethods(heap, lastCall.arg)
    /\ MethodData(heap, lastCall.self)[lastCall.self[1]] = NewData
    /\ MethodData(heap, lastCall.arg)[lastCall.self[1]] = NewData

\* C12: merging b into a twice gives the mapping that merging it once gives,
\* and merging a link into itself leaves its mapping, and so its method_count,
\* as it was.
C12_MergeIdempotent ==
    \A a \in DOMAIN heap :
        /\ MethodData(_merge(heap, a, a), a) = MethodData(heap, a)
        /\ LinkMethodCount(_merge(heap, a, a), a) = LinkMethodCount(heap, a)
        /\ \A b \in DOMAIN heap :
               MethodData(_merge(_merge(heap, a, b), a, b), a) =
                   MethodData(_merge(heap, a, b), a)

\* b was merged into a, which now carries two payloads, b's among them
C12_Witness ==
    /\ lastCall.op = "_merge"
    /\ lastCall.self # lastCall.arg
    /\ LinkMethodCount(heap, lastCall.self) = 2
    /\ \A m \in LinkMethods(heap, lastCall.arg) :
           /\ m \in LinkMethods(heap, lastCall.self)
           /\ MethodData(heap, lastCall.self)[m] = MethodData(heap, lastCall.arg)[m]

\* C13: adding a strain to one ObjectLink's shared_strains never changes the
\* shared_strains of any other ObjectLink, links constructed without an
\* explicit shared_strains argument included.
C13_OwnSharedStrains ==
    [][(lastCall'.op = "append") =>
          \A other \in DOMAIN heap \ {lastCall'.self} :
              lists'[heap'[other].shared_strains] = lists[heap[other].shared_strains]]_vars

\* C15: data(method) and link[method] for a method that never contributed to
\* the link fail with a KeyError and leave the link as it was; for a method
\* that did contribute both return the payload stored for it.
C15_LookupOfPayload ==
    [][(lastCall'.op \in {"data", "__getitem__"}) =>
          /\ heap' = heap
          /\ IF lastCall'.arg \in LinkMethods(heap, lastCall'.self)
             THEN /\ lastCall'.error = "none"
                  /\ lastCall'.value = MethodData(heap, lastCall'.self)[lastCall'.arg]
             ELSE lastCall'.error = "KeyError"]_vars

---------------------------------------------------------------------------
(* Properties of the shared strains of the links of MetcalfScoring and      *)
(* RosettaScoring                                                           *)

\* the strains a source and a target have in common
CommonStrains(source, target) == StrainsOf(source) \cap StrainsOf(target)

\* C14: every ObjectLink that MetcalfScoring.get_links or RosettaScoring.get_links
\* put into the collection carries as shared strains the strains its source
\* and target have in common, and filter_no_shared_strains keeps exactly the
\* pairs whose source and target have a strain in common.
C14_LinksCarryCommonStrains ==
    /\ [](\A p \in Pairs(_link_data) :
             {SharedStrains(heap, Stored(_link_data, p))[i] :
                  i \in DOMAIN SharedStrains(heap, Stored(_link_data, p))}
                 = CommonStrains(p[1], p[2]))
    /\ [][(lastOp'.op = "filter_no_shared_strains") =>
             Pairs(_link_data') =
                 {p \in Pairs(_link_data) : CommonStrains(p[1], p[2]) # {}}]_vars

---------------------------------------------------------------------------
(* Properties of get_sorted_links *)

\* no element of the list occurs twice
NoRepeats(list) == \A i, j \in DOMAIN list : list[i] = list[j] => i = j

\* the links are in the order `method`.sort gives: by Metcalf's score, highest
\* first when reverse is set; any order for a method whose sort returns the
\* list as it is
InSortOrder(h, method, list, reverse) ==
    method.cls = "MetcalfScoring" =>
        \A i \in 1..(Len(list) - 1) :
            IF reverse
            THEN ~ScoreLess(h[list[i]]._method_data[method], h[list[i + 1]]._method_data[method])
            ELSE ~ScoreLess(h[list[i + 1]]._method_data[method], h[list[i]]._method_data[method])

\* C18: get_sorted_links(method, source, reverse, strict) on a source of the
\* collection returns, when strict, exactly the source's links that carry the
\* method's data, in method.sort order; when not strict, every link of the
\* source once, those carrying the method's data first and in method.sort
\* order; the collection is not changed.
C18_SortedLinks ==
    [][(/\ lastCall'.op = "get_sorted_links"
        /\ lastOp' = lastOp
        /\ lastCall'.self \in DOMAIN _link_data) =>
          LET source == lastCall'.self
              args == lastCall'.arg
              returned == lastCall'.value
              all == {_link_data[source][t] : t \in DOMAIN _link_data[source]}
              carrying == {link \in all : args.method \in LinkMethods(heap, link)}
              n == Cardinality(carrying)
          IN  /\ lastCall'.error = "none"
              /\ UNCHANGED collVars
              /\ NoRepeats(returned)
              /\ Len(returned) >= n
              /\ Range(SubSeq(returned, 1, n)) = carrying
              /\ InSortOrder(heap, args.method, SubSeq(returned, 1, n), args.reverse)
              /\ Range(returned) = IF args.strict THEN carrying ELSE all]_vars

\* the three Metcalf links of a source were returned, highest score first
C18_Witness ==
    /\ lastCall.op = "get_sorted_links"
    /\ lastCall.error = "none"
    /\ lastCall.arg.method = TheMetcalf
    /\ lastCall.arg.reverse
    /\ Len(lastCall.value) = 3
    /\ \A i \in 1..3 : /\ lastCall.value[i] \in DOMAIN heap
                       /\ TheMetcalf \in LinkMethods(heap, lastCall.value[i])
    /\ \A i \in 1..2 : ScoreLess(heap[lastCall.value[i + 1]]._method_data[TheMetcalf],
                                 heap[lastCall.value[i]]._method_data[TheMetcalf])

---------------------------------------------------------------------------
(* Properties of the standardised Metcalf scores *)

\* the `objects` lists MetcalfScoring.get_links accepts
MetcalfInputs ==
    {objects \in ObjectLists :
        /\ Len(objects) > 0
        /\ \A i \in DOMAIN objects : objects[i].kind = objects[1].kind
        /\ objects[1].kind # "BGC"}

\* the raw pairs the backend returns for the objects when it is given no
\* cutoff, each as (source, target, metabolomic object, GCF, raw score)
RawPairs(objects) ==
    LET arrays == LinkFinderGetLinks(objects, NoCutoff)
        kind == objects[1].kind
        OfGcf(c, met_kind) ==
            [source |-> Obj("GCF", c.src), target |-> Obj(met_kind, c.dst),
             met |-> Obj(met_kind, c.dst), gcf |-> Obj("GCF", c.src), raw |-> c.score.num]
        OfMet(c) ==
            [source |-> Obj(kind, c.src), target |-> Obj("GCF", c.dst),
             met |-> Obj(kind, c.src), gcf |-> Obj("GCF", c.dst), raw |-> c.score.num]
    IN  IF kind = "GCF"
        THEN {OfGcf(arrays[1][i], "Spectrum") : i \in DOMAIN arrays[1]} \cup
             {OfGcf(arrays[2][i], "MolecularFamily") : i \in DOMAIN arrays[2]}
        ELSE {OfMet(arrays[1][i]) : i \in DOMAIN arrays[1]}

\* z = (raw - expected[m][g]) / variance_sqrt[m][g] as numerator and denominator
ZNum(pair) ==
    pair.raw - metcalf_expected(Cardinality(StrainsOf(pair.met)),
                                Cardinality(StrainsOf(pair.gcf)))
ZDen(pair) ==
    metcalf_variance_sqrt(Cardinality(StrainsOf(pair.met)), Cardinality(StrainsOf(pair.gcf)))

\* cutoff is None or z >= cutoff
ZPasses(pair) == cutoff.none \/ ZNum(pair) >= cutoff.value * ZDen(pair)

\* the links get_links hands to the collection for the objects
MetcalfLinksFor(objects) ==
    MetcalfLinks(MetcalfResults(objects, objects[1].kind), objects[1].kind)

\* C19: with standardisation enabled, get_links retains a raw pair exactly
\* when cutoff is None or z >= cutoff, with z computed from the strain counts
\* of the pair's metabolomic object and GCF, and the payload of a retained
\* link is z.
C19_StandardisedRetention ==
    standardised =>
        \A objects \in MetcalfInputs :
            LET links == MetcalfLinksFor(objects)
                passing == {pair \in RawPairs(objects) : ZPasses(pair)}
            IN  /\ Pairs(links) = {<<pair.source, pair.target>> : pair \in passing}
                /\ \A pair \in passing :
                       links[pair.source][pair.target].num * ZDen(pair) =
                           ZNum(pair) * links[pair.source][pair.target].den

\* the collection holds Metcalf's link of a pair whose z equals the cutoff
C19_Witness ==
    /\ standardised
    /\ cutoff = CutoffAt(1)
    /\ TheMetcalf \in _methods
    /\ <<Obj("Spectrum", 1), Obj("GCF", 0)>> \in Pairs(_link_data)
    /\ LET link == Stored(_link_data, <<Obj("Spectrum", 1), Obj("GCF", 0)>>)
       IN  /\ TheMetcalf \in LinkMethods(heap, link)
           /\ heap[link]._method_data[TheMetcalf] = [num |-> 1, den |-> 1]

\* C20: with standardisation enabled the backend is asked without a cutoff,
\* and the instance cutoff is applied to z only: a pair whose raw score is below
\* the cutoff and whose z is at or above it is retained.
C20_CutoffAfterStandardisation ==
    standardised =>
        /\ BackendCutoff = NoCutoff
        /\ ~cutoff.none =>
               \A objects \in MetcalfInputs :
                   \A pair \in RawPairs(objects) :
                       (pair.raw < cutoff.value /\ ZPasses(pair)) =>
                           <<pair.source, pair.target>> \in Pairs(MetcalfLinksFor(objects))

\* the collection holds Metcalf's link of a pair with raw score 0, below the
\* cutoff 1, and z = 2
C20_Witness ==
    /\ standardised
    /\ cutoff = CutoffAt(1)
    /\ TheMetcalf \in _methods
    /\ RawScore(Obj("Spectrum", 0), Obj("GCF", 1)) < cutoff.value
    /\ <<Obj("GCF", 1), Obj("Spectrum", 0)>> \in Pairs(_link_data)
    /\ LET link == Stored(_link_data, <<Obj("GCF", 1), Obj("Spectrum", 0)>>)
       IN  /\ TheMetcalf \in LinkMethods(heap, link)
           /\ heap[link]._method_data[TheMetcalf] = [num |-> 2, den |-> 1]

---------------------------------------------------------------------------
(* Properties of RosettaScoring.get_links *)

\* the lists of BGCs, of GCFs or of Spectra that get_links accepts
RosettaInputs ==
    {objects \in ObjectLists :
        /\ Len(objects) > 0
        /\ \A i \in DOMAIN objects : objects[i].kind = objects[1].kind
        /\ objects[1].kind # "MolecularFamily"}

\* the hits Rosetta holds
AllHits == Range(_rosetta_hits)

\* a hit at or above both cutoffs
Survives(hit) ==
    /\ hit.spec_match_score >= spec_score_cutoff
    /\ hit.bgc_match_score >= bgc_score_cutoff

\* the hits of a BGC or of a Spectrum: those whose BGC, or Spectrum, has its id
HitsOf(obj) ==
    {hit \in AllHits : IF obj.kind = "BGC" THEN hit.bgc.id = obj.id
                                           ELSE hit.spec.id = obj.id}

\* the (source, target) a hit of an input object belongs to
PairOf(obj, hit) ==
    IF obj.kind = "BGC"
    THEN <<IF bgc_to_gcf THEN Parent(obj) ELSE obj, hit.spec>>
    ELSE <<obj, IF bgc_to_gcf THEN Parent(hit.bgc) ELSE hit.bgc>>

\* the hits in the payloads of a result mapping
HitsIn(results) == UNION {Range(results[p[1]][p[2]]) : p \in Pairs(results)}

\* C21: no hit below spec_score_cutoff or below bgc_score_cutoff is in a
\* link payload of RosettaScoring.get_links; every link of the result comes from
\* a hit of an input object that passes both cutoffs, so an object all of whose
\* hits fail gets no link; a hit exactly at both cutoffs is in the payload of
\* its link.
C21_RosettaCutoffs ==
    /\ \A objects \in RosettaInputs : \A converted \in RosettaObjects(objects) :
           LET results == RosettaResults(converted)
           IN  /\ \A hit \in HitsIn(results) :
                      /\ hit.spec_match_score >= spec_score_cutoff
                      /\ hit.bgc_match_score >= bgc_score_cutoff
               /\ \A s \in DOMAIN results : DOMAIN results[s] # {}
               /\ \A p \in Pairs(results) :
                      \E obj \in Range(converted) : \E hit \in HitsOf(obj) :
                          /\ Survives(hit)
                          /\ PairOf(obj, hit) = p
                          /\ hit \in Range(results[p[1]][p[2]])
               /\ \A obj \in Range(converted) : \A hit \in HitsOf(obj) :
                      (/\ hit.spec_match_score = spec_score_cutoff
                       /\ hit.bgc_match_score = bgc_score_cutoff) =>
                          /\ PairOf(obj, hit) \in Pairs(results)
                          /\ hit \in Range(results[PairOf(obj, hit)[1]][PairOf(obj, hit)[2]])
    /\ \A ref \in DOMAIN heap :
           TheRosetta \in LinkMethods(heap, ref) =>
               \A hit \in Range(heap[ref]._method_data[TheRosetta]) :
                   /\ hit.spec_match_score >= spec_score_cutoff
                   /\ hit.bgc_match_score >= bgc_score_cutoff

\* with both cutoffs at 5 and no roll-up, get_links was given GCFs and linked
\* BGC 0 alone: its hit scoring (5, 5) is in the payload, and BGC 1, whose one
\* hit has a BGC score of 4, got no link
C21_Witness ==
    /\ lastOp.op = "get_links" /\ lastOp.method = TheRosetta /\ ~lastOp.raised
    /\ lastOp.kinds = "GCF"
    /\ ~bgc_to_gcf
    /\ spec_score_cutoff = 5 /\ bgc_score_cutoff = 5
    /\ TheRosetta \in DOMAIN reported
    /\ DOMAIN reported[TheRosetta] = {Obj("BGC", 0)}
    /\ <<Obj("BGC", 0), Obj("Spectrum", 0)>> \in Pairs(_link_data)
    /\ LET link == Stored(_link_data, <<Obj("BGC", 0), Obj("Spectrum", 0)>>)
       IN  /\ TheRosetta \in LinkMethods(heap, link)
           /\ _rosetta_hits[1] \in Range(heap[link]._method_data[TheRosetta])
           /\ _rosetta_hits[2] \notin Range(heap[link]._method_data[TheRosetta])

\* the surviving hits of the input objects that belong to the pair p
SurvivingHitsOn(objects, p) ==
    {hit \in AllHits : \E obj \in Range(objects) :
        hit \in HitsOf(obj) /\ Survives(hit) /\ PairOf(obj, hit) = p}

\* C22: RosettaScoring.get_links loses no surviving hit: every hit of an input
\* BGC or Spectrum that passes both cutoffs is in the payload list of the link
\* of its (source, target), the source or target BGC replaced by its owning GCF
\* under bgc_to_gcf, and the list of a link holds all the surviving hits that
\* fall on its pair, those of different BGCs of one GCF included.
C22_NoSurvivingHitLost ==
    \A objects \in RosettaInputs : \A converted \in RosettaObjects(objects) :
        LET results == RosettaResults(converted)
        IN  /\ \A obj \in Range(converted) : \A hit \in HitsOf(obj) :
                   Survives(hit) =>
                       /\ PairOf(obj, hit) \in Pairs(results)
                       /\ \E i \in DOMAIN results[PairOf(obj, hit)[1]][PairOf(obj, hit)[2]] :
                              results[PairOf(obj, hit)[1]][PairOf(obj, hit)[2]][i] = hit
            /\ \A p \in Pairs(results) :
                   Range(results[p[1]][p[2]]) = SurvivingHitsOn(converted, p)

\* get_links was given BGCs and rolled them up: the link of GCF 0 and
\* Spectrum 0 in the collection holds the two hits of BGC 0 and the hit of BGC 1
C22_Witness ==
    /\ lastOp.op = "get_links" /\ lastOp.method = TheRosetta /\ ~lastOp.raised
    /\ lastOp.kinds = "BGC"
    /\ bgc_to_gcf
    /\ <<Obj("GCF", 0), Obj("Spectrum", 0)>> \in Pairs(_link_data)
    /\ LET link == Stored(_link_data, <<Obj("GCF", 0), Obj("Spectrum", 0)>>)
       IN  /\ TheRosetta \in LinkMethods(heap, link)
           /\ Range(heap[link]._method_data[TheRosetta]) =
                  {_rosetta_hits[1], _rosetta_hits[2], _rosetta_hits[4]}
           /\ Len(heap[link]._method_data[TheRosetta]) = 3

\* the member BGCs of the GCFs listed
UnionOfMembers(objects) == UNION {MemberBgcs(objects[i]) : i \in DOMAIN objects}

\* two result mappings with the same pairs and, on each pair, the same hits
\* as often
SameLinksAndHits(a, b) ==
    /\ Pairs(a) = Pairs(b)
    /\ \A p \in Pairs(a) :
           /\ Range(a[p[1]][p[2]]) = Range(b[p[1]][p[2]])
           /\ Len(a[p[1]][p[2]]) = Len(b[p[1]][p[2]])

---------------------------------------------------------------------------
(* Properties of TestScoring.get_links *)

\* the result mapping a is within the result mapping b
SubMapping(a, b) ==
    /\ DOMAIN a \subseteq DOMAIN b
    /\ \A s \in DOMAIN a : a[s] \subseteq b[s]

\* C24: whatever the collection held before and in both combination modes,
\* a TestScoring.get_links whose inner MetcalfScoring contributed contributes
\* too, under its own identity, a mapping within the inner Metcalf result that
\* has floor(value * n) sources, n being the number of sources of that Metcalf
\* result.
C24_TestKeepsFractionOfMetcalf ==
    /\ TheTestMc \in _methods => TheTest \in _methods
    /\ TheTest \in DOMAIN reported =>
           /\ SubMapping(reported[TheTest], reported[TheTestMc])
           /\ Cardinality(DOMAIN reported[TheTest]) =
                  NumToKeep(Cardinality(DOMAIN reported[TheTestMc]))

\* C29: in an AND-mode collection every link present carries payloads for
\* exactly the methods of the collection, after the get_links calls of
\* RosettaScoring and of TestScoring, which registers its inner MetcalfScoring
\* and itself.
C29_AndModeAfterScoringMethods ==
    _and_mode =>
        \A ref \in Refs(_link_data) :
            /\ LinkMethods(heap, ref) = _methods
            /\ LinkMethodCount(heap, ref) = Cardinality(_methods)

---------------------------------------------------------------------------
(* Properties of MetcalfScoring.setup *)

\* C25: a setup call that finds a cache file the loader cannot deserialize
\* does not fail: it runs the backend, leaves both class attributes set for
\* the current universe and leaves a loadable cache file holding the current
\* cardinalities, also when an earlier setup of the process had set the
\* attributes.
C25_CorruptCacheRecomputed ==
    (lastOp.op = "setup" /\ lastSetup.found = "corrupt") =>
        /\ ~lastOp.raised
        /\ lastSetup.recomputed
        /\ DATALINKS = BuiltFrom(npl_counts)
        /\ LINKFINDER = BuiltFrom(npl_counts)
        /\ cache_file = SavedCacheFile(npl_counts, DATALINKS, LINKFINDER)

\* setup has just run on an unreadable cache file, in a universe that has grown
\* since the file was first written
C25_Witness ==
    /\ lastOp.op = "setup"
    /\ lastSetup.found = "corrupt"
    /\ npl_counts # BaseCounts
    /\ DATALINKS.built

\* C26: a setup call in a process whose class attributes are set, with the
\* cache file intact and holding the cardinalities of the universe, does not
\* run the backend and leaves the class attributes and the cache file as the
\* earlier call left them.
C26_SetupIdempotent ==
    [][(/\ lastOp'.op = "setup"
        /\ DATALINKS.built
        /\ cache_file.exists /\ cache_file.loadable
        /\ cache_file.counts = npl_counts) =>
           /\ ~lastSetup'.recomputed
           /\ ~lastOp'.consulted
           /\ DATALINKS' = DATALINKS
           /\ LINKFINDER' = LINKFINDER
           /\ cache_file' = cache_file]_vars

\* setup ran, found the cache file matching the universe and did not run the
\* backend: the state a second call in the process leaves
C26_Witness ==
    /\ lastOp.op = "setup"
    /\ lastSetup.found = "match"
    /\ ~lastSetup.recomputed
    /\ DATALINKS = BuiltFrom(npl_counts)
    /\ cache_file = SavedCacheFile(npl_counts, DATALINKS, LINKFINDER)

---------------------------------------------------------------------------
(* Properties of the collection as it is filtered, sorted and read *)

\* C27: no get_links (add_from_method), filter, get_sorted_links or read
\* changes the combination mode the collection was constructed with, and the
\* filters, get_sorted_links and the reads leave the set of contributing
\* methods as it was.
C27_ModeFixedAtConstruction ==
    [][/\ _and_mode' = _and_mode
       /\ lastOp'.op \in (FilterOps \cup ReadNames \cup {"get_sorted_links"}) =>
              _methods' = _methods]_vars

\* an OR-mode collection to which both methods contributed links has been
\* filtered empty and then asked for sorted links: it is still in OR mode and
\* still names both methods
C27_Witness ==
    /\ lastOp.op = "get_sorted_links"
    /\ ~_and_mode
    /\ _methods = {TheMetcalf, TheRosetta}
    /\ _link_data = EmptyDict
    /\ \A m \in DOMAIN reported : DOMAIN reported[m] # {}

---------------------------------------------------------------------------
(* Properties of the result mapping of MetcalfScoring.get_links *)

\* the pairs the columns of an array stand for, the source ids being of
\* src_kind and the destination ids of dst_kind
ColumnPairs(cols, src_kind, dst_kind) ==
    {<<Obj(src_kind, cols[i].src), Obj(dst_kind, cols[i].dst)>> : i \in DOMAIN cols}

\* C28: MetcalfScoring.get_links keys its result by the input side.  For GCF
\* input its links are those of both arrays, GCF to Spectrum and GCF to
\* MolecularFamily, each with the GCF as source; for Spectrum or
\* MolecularFamily input each link has the metabolomic object as source and a
\* GCF as target.  Every ObjectLink is built for its own pair and carries one
\* payload, under the Metcalf instance that ran.
C28_MetcalfKeyedByInputSide ==
    /\ \A objects \in MetcalfInputs :
           LET kind == objects[1].kind
               arrays == MetcalfResults(objects, kind)
               links == MetcalfLinksFor(objects)
               link_objects == LinkObjects(TheMetcalf, links)
           IN  /\ IF kind = "GCF"
                  THEN /\ Pairs(links) =
                              ColumnPairs(arrays[1], "GCF", "Spectrum") \cup
                              ColumnPairs(arrays[2], "GCF", "MolecularFamily")
                       /\ \A p \in Pairs(links) :
                              /\ p[1].kind = "GCF"
                              /\ p[2].kind \in {"Spectrum", "MolecularFamily"}
                  ELSE /\ Pairs(links) = ColumnPairs(arrays[1], kind, "GCF")
                       /\ \A p \in Pairs(links) :
                              /\ p[1].kind = kind
                              /\ p[2].kind = "GCF"
               /\ \A p \in Pairs(links) :
                      LET link == link_objects[LinkRefs(TheMetcalf, links)[p[1]][p[2]]]
                      IN  /\ link.source = p[1]
                          /\ link.target = p[2]
                          /\ DOMAIN link._method_data = {TheMetcalf}
    /\ (/\ lastOp.op = "get_links" /\ lastOp.method = TheMetcalf /\ ~lastOp.raised
        /\ _methods = {TheMetcalf}) =>
           \A p \in Pairs(_link_data) :
               LET link == heap[Stored(_link_data, p)]
               IN  /\ link.source = p[1]
                   /\ link.target = p[2]
                   /\ DOMAIN link._method_data = {TheMetcalf}
                   /\ IF lastOp.kinds = "GCF"
                      THEN /\ p[1].kind = "GCF"
                           /\ p[2].kind \in {"Spectrum", "MolecularFamily"}
                      ELSE /\ p[1].kind = lastOp.kinds
                           /\ p[2].kind = "GCF"

\* MetcalfScoring.get_links was given GCFs and is the collection's one method:
\* GCF 0 is linked to a Spectrum and to the MolecularFamily
C28_Witness ==
    /\ lastOp.op = "get_links" /\ lastOp.method = TheMetcalf /\ ~lastOp.raised
    /\ lastOp.kinds = "GCF"
    /\ _methods = {TheMetcalf}
    /\ Obj("GCF", 0) \in DOMAIN _link_data
    /\ Obj("MolecularFamily", 0) \in DOMAIN _link_data[Obj("GCF", 0)]
    /\ \E t \in Spectra : t \in DOMAIN _link_data[Obj("GCF", 0)]

---------------------------------------------------------------------------
(* Properties of a get_links that finds nothing *)

\* C30: a get_links of MetcalfScoring or RosettaScoring that returns has
\* registered the method, which was not registered before, whatever it found.
\* When it found no link, an AND-mode collection is left without sources and an
\* OR-mode collection with the links and payloads it had.
C30_ZeroResultsStillRegistered ==
    [][(/\ lastOp'.op = "get_links"
        /\ ~lastOp'.raised
        /\ lastOp'.method \in {TheMetcalf, TheRosetta}) =>
           LET method == lastOp'.method
           IN  /\ method \notin _methods
               /\ _methods' = _methods \cup {method}
               /\ method \in DOMAIN reported'
               /\ DOMAIN reported'[method] = {} =>
                      IF _and_mode
                      THEN DOMAIN _link_data' = {}
                      ELSE /\ _link_data' = _link_data
                           /\ heap' = heap]_vars

\* MetcalfScoring.get_links took its early return for Spectrum or
\* MolecularFamily input on an AND-mode collection that held links of
\* RosettaScoring: both methods are registered and no source is left
C30_Witness ==
    /\ lastOp.op = "get_links" /\ lastOp.method = TheMetcalf /\ ~lastOp.raised
    /\ lastOp.kinds \in {"Spectrum", "MolecularFamily"}
    /\ _and_mode
    /\ _methods = {TheMetcalf, TheRosetta}
    /\ DOMAIN reported[TheMetcalf] = {}
    /\ DOMAIN reported[TheRosetta] # {}
    /\ DOMAIN _link_data = {}

---------------------------------------------------------------------------
(* Properties of the sources a collection keeps *)

\* every result mapping passed to the collection gave each of its sources at
\* least one target
EverySourceContributedHasTargets ==
    \A method \in DOMAIN reported :
        \A source \in DOMAIN reported[method] : reported[method][source] # {}

\* C31: no source of the collection maps to an empty target mapping, provided
\* every contributed result mapping had at least one target per source, after
\* any sequence of get_links calls of its methods, in either mode, and of
\* filter_links, filter_targets, filter_sources and filter_no_shared_strains
C31_NoSourceWithoutTargets ==
    EverySourceContributedHasTargets =>
        \A source \in DOMAIN _link_data : DOMAIN _link_data[source] # {}

---------------------------------------------------------------------------
(* Properties of the objects MetcalfScoring.get_links standardises a score for *)

\* the standardised score of the raw score of a metabolomic object and a GCF,
\* from the strain counts of these two objects
ScoreOfObjects(met, gcf) ==
    FinalScore(Score(RawScore(met, gcf)),
               Cardinality(StrainsOf(met)), Cardinality(StrainsOf(gcf)))

\* C32: in standardised MetcalfScoring.get_links the strain counts that
\* standardise the score of a backend triple are those of the objects that
\* become source and target of its ObjectLink, whatever the order of the
\* public lists: the payload of every link is the standardised score of the
\* link's own metabolomic object and GCF.
C32_StandardisedForLinkedObjects ==
    (/\ lastOp.op = "get_links" /\ lastOp.method = TheMetcalf /\ ~lastOp.raised
     /\ standardised
     /\ _methods = {TheMetcalf}) =>
        \A p \in Pairs(_link_data) :
            LET link == heap[Stored(_link_data, p)]
                met == IF link.source.kind = "GCF" THEN link.target ELSE link.source
                gcf == IF link.source.kind = "GCF" THEN link.source ELSE link.target
            IN  link._method_data[TheMetcalf] = ScoreOfObjects(met, gcf)

---------------------------------------------------------------------------
(* Properties of the payload lists of RosettaScoring.get_links *)

\* C33: in the result of RosettaScoring.get_links for a list of BGCs or of
\* Spectra, a list that names an object more than once included, no hit record
\* is more than once in the payload list of a link.
C33_NoHitTwiceInPayload ==
    (/\ lastOp.op = "get_links" /\ lastOp.method = TheRosetta /\ ~lastOp.raised
     /\ lastOp.kinds \in {"BGC", "Spectrum"}) =>
        \A p \in Pairs(_link_data) :
            LET link == heap[Stored(_link_data, p)]
            IN  TheRosetta \in DOMAIN link._method_data =>
                    \A i, j \in DOMAIN link._method_data[TheRosetta] :
                        link._method_data[TheRosetta][i] = link._method_data[TheRosetta][j]
                            => i = j

---------------------------------------------------------------------------
(* Properties of TestScoring.get_links on a collection that holds links *)

\* C34: TestScoring.get_links on a collection that holds the links of another
\* method, in either mode, with an inner Metcalf call that succeeds, returns
\* without error; every link it retained then has a payload under the
\* TestScoring and none under its inner Metcalf, and a link that has only the
\* other method's payload is as it was.
C34_TestOnFilledCollection ==
    [][(/\ lastOp'.op = "get_links" /\ lastOp'.method = TheTest
        /\ TheRosetta \in _methods
        /\ DOMAIN _link_data # {}
        /\ TheTestMc \notin _methods
        /\ TheTestMc \in _methods') =>
           /\ ~lastOp'.raised
           /\ TheTest \in DOMAIN reported'
           /\ \A p \in ShapePairs(reported'[TheTest]) \cap Pairs(_link_data') :
                  LET link == heap'[Stored(_link_data', p)]
                  IN  /\ TheTest \in DOMAIN link._method_data
                      /\ TheTestMc \notin DOMAIN link._method_data
           /\ \A ref \in (DOMAIN heap) \cap (DOMAIN heap') :
                  <<ref[2], ref[3]>> \notin ShapePairs(reported'[TheTestMc]) =>
                      heap'[ref] = heap[ref]]_vars

---------------------------------------------------------------------------
(* Properties of the 'completed' marker of an extracted archive *)

\* C35: the 'completed' marker of an antiSMASH or MiBIG archive is created only
\* after every selected member was extracted: over runs that may be stopped at
\* any step, a marker that is present means the members are extracted and the
\* extraction ran to its end in some run; a call that starts with the marker
\* present extracts nothing and, unless the process is stopped, returns True.
C35_MarkerAfterExtraction ==
    /\ \A archive \in Archives :
           disk.completed[archive] =>
               /\ SelectedMembers(archive) \subseteq disk.extracted[archive]
               /\ lastRun.finished[archive]
    /\ (frame.pc # "idle" /\ frame.started_completed) => frame.extracted_now = {}
    /\ (lastRun.last.op \in ArchiveOps /\ lastRun.last.started_completed) =>
           /\ lastRun.last.extracted_now = {}
           /\ lastRun.last.result \in {"True", "stopped"}

\* a call for an accession whose marker was present has returned True, after an
\* earlier run of the same accession had been stopped in the middle of its
\* extraction
C35_Witness ==
    /\ frame = Idle
    /\ lastRun.last.op = "_download_antismash_zip"
    /\ lastRun.last.started_completed
    /\ lastRun.last.result = "True"
    /\ disk.completed[lastRun.last.archive]
    /\ \E other \in Archives \ {lastRun.last.archive} :
           /\ ~disk.completed[other]
           /\ disk.extracted[other] # {}
           /\ ~(SelectedMembers(other) \subseteq disk.extracted[other])

---------------------------------------------------------------------------
(* Properties of missing_antismash.txt over the runs of _download_genomics_data *)

\* a run of _download_genomics_data ends with this step
GenomicsRunEnds ==
    /\ frame.pc # "idle"
    /\ frame' = Idle
    /\ lastRun'.last.op = "_download_genomics_data"

\* C36: over the runs of _download_genomics_data, an accession recorded in
\* missing_antismash.txt is not looked up or downloaded again, the recorded set
\* never shrinks, an accession is added to it exactly when its antiSMASH lookup
\* returned no download, and the file is rewritten before the run raises for
\* having obtained no genome.
C36_MissingAccessionCache ==
    [][/\ ReadMissing(disk.missing) \subseteq ReadMissing(disk'.missing)
       /\ GenomicsRunEnds =>
              /\ lastRun'.last.looked_up \cap lastRun'.last.missing_before = {}
              /\ ReadMissing(disk'.missing) =
                     lastRun'.last.missing_before \cup lastRun'.last.not_found
              /\ lastRun'.last.result = "raised_none_found" =>
                     disk'.missing = WrittenFile(frame.missing_files)]_vars

====
